---- MODULE Spec2Model ----
(***************************************************************************)
(* Feature-normalization and demographic-enrichment pipeline of the        *)
(* CleanKitchen NYC dashboard: src/src/predictor.py and src/src/utils.py.  *)
(*                                                                         *)
(* Python values are tagged records; a Python str is a sequence of         *)
(* one-character strings, so that strip / lower / title / str() are        *)
(* computed character by character.  A float is kept in half units         *)
(* (h = 2 * value), which is exact for medians of integer data.            *)
(*                                                                         *)
(* pc, call and ret hold the call in progress and what it returned or      *)
(* raised; model_calls is the trace of the classifier calls the request    *)
(* made; prev is an earlier assembly a caller has kept for comparison;      *)
(* session_state is st.session_state of the browser session of app.py.     *)
(***************************************************************************)
EXTENDS Integers, Sequences, FiniteSets, TLC

VARIABLES df_demo, ZIP_LOOKUP, BORO_LOOKUP, GLOBAL_FALLBACK, pc, call, ret, model_calls, prev, session_state

vars == <<df_demo, ZIP_LOOKUP, BORO_LOOKUP, GLOBAL_FALLBACK, pc, call, ret, model_calls, prev, session_state>>

tables == <<df_demo, ZIP_LOOKUP, BORO_LOOKUP, GLOBAL_FALLBACK>>

(***************************************************************************)
(* Python values                                                           *)
(***************************************************************************)
PyNone == [t |-> "NoneType"]

PyStr(s) == [t |-> "str", s |-> s]

PyInt(n) == [t |-> "int", n |-> n]

PyFloat(h) == [t |-> "float", nan |-> FALSE, h |-> h]

PyNaN == [t |-> "float", nan |-> TRUE, h |-> 0]

PyList(elems) == [t |-> "list", elems |-> elems]

Returned(v) == [ok |-> TRUE, v |-> v]

Raised(exc) == [ok |-> FALSE, exc |-> exc]

(***************************************************************************)
(* Characters and str methods                                              *)
(***************************************************************************)
LowerLetters == <<"a","b","c","d","e","f","g","h","i","j","k","l","m","n","o","p","q","r","s","t","u","v","w","x","y","z">>

UpperLetters == <<"A","B","C","D","E","F","G","H","I","J","K","L","M","N","O","P","Q","R","S","T","U","V","W","X","Y","Z">>

DigitChars == <<"0","1","2","3","4","5","6","7","8","9">>

Whitespace == {" "}

IsIn(seq, c) == \E i \in 1..Len(seq) : seq[i] = c

IndexOf(seq, c) == CHOOSE i \in 1..Len(seq) : seq[i] = c

LowerChar(c) == IF IsIn(UpperLetters, c) THEN LowerLetters[IndexOf(UpperLetters, c)] ELSE c

UpperChar(c) == IF IsIn(LowerLetters, c) THEN UpperLetters[IndexOf(LowerLetters, c)] ELSE c

IsCased(c) == IsIn(LowerLetters, c) \/ IsIn(UpperLetters, c)

\* str.lower()
StrLower(s) == [i \in 1..Len(s) |-> LowerChar(s[i])]

\* str.upper()
StrUpper(s) == [i \in 1..Len(s) |-> UpperChar(s[i])]

RECURSIVE LStrip(_)
LStrip(s) == IF s # <<>> /\ Head(s) \in Whitespace THEN LStrip(Tail(s)) ELSE s

RECURSIVE RStrip(_)
RStrip(s) == IF s # <<>> /\ s[Len(s)] \in Whitespace THEN RStrip(SubSeq(s, 1, Len(s) - 1)) ELSE s

\* str.strip()
StrStrip(s) == RStrip(LStrip(s))

RECURSIVE TitleFrom(_, _)
TitleFrom(s, prevCased) ==
    IF s = <<>> THEN <<>>
    ELSE IF IsCased(Head(s))
         THEN <<IF prevCased THEN LowerChar(Head(s)) ELSE UpperChar(Head(s))>> \o TitleFrom(Tail(s), TRUE)
         ELSE <<Head(s)>> \o TitleFrom(Tail(s), FALSE)

\* str.title()
StrTitle(s) == TitleFrom(s, FALSE)

RECURSIVE NatToStr(_)
NatToStr(n) == IF n < 10 THEN <<DigitChars[n + 1]>> ELSE NatToStr(n \div 10) \o <<DigitChars[(n % 10) + 1]>>

\* str(int)
IntToStr(n) == IF n < 0 THEN <<"-">> \o NatToStr(0 - n) ELSE NatToStr(n)

\* str(float) of a non-negative float kept in half units
FloatToStr(h) == NatToStr(h \div 2) \o <<".">> \o (IF h % 2 = 0 THEN <<"0">> ELSE <<"5">>)

RECURSIVE Str(_)
RECURSIVE JoinRepr(_)
\* ", ".join(repr(e) for e in elems); the lists of the model hold ints, whose repr is their str
JoinRepr(elems) ==
    IF elems = <<>> THEN <<>>
    ELSE IF Len(elems) = 1 THEN Str(Head(elems))
    ELSE Str(Head(elems)) \o <<",", " ">> \o JoinRepr(Tail(elems))

\* str(x)
Str(x) ==
    CASE x.t = "str" -> x.s
      [] x.t = "int" -> IntToStr(x.n)
      [] x.t = "float" -> IF x.nan THEN <<"n","a","n">> ELSE FloatToStr(x.h)
      [] x.t = "NoneType" -> <<"N","o","n","e">>
      [] x.t = "list" -> <<"[">> \o JoinRepr(x.elems) \o <<"]">>

\* bool(x): the truth value Python's "not x" / "x or y" tests
Truthy(x) ==
    CASE x.t = "NoneType" -> FALSE
      [] x.t = "str" -> x.s # <<>>
      [] x.t = "int" -> x.n # 0
      [] x.t = "float" -> x.nan \/ x.h # 0
      [] x.t = "list" -> x.elems # <<>>

\* x or y
Or(x, y) == IF Truthy(x) THEN x ELSE y

(***************************************************************************)
(* utils.py: borough normalization                                         *)
(***************************************************************************)
\* the synonym table of normalize_borough, as <<key, value>> pairs
mapping ==
    { << <<"m","a","n","h","a","t","t","a","n">>, <<"M","a","n","h","a","t","t","a","n">> >>,
      << <<"n","e","w"," ","y","o","r","k">>, <<"M","a","n","h","a","t","t","a","n">> >>,
      << <<"n","y">>, <<"M","a","n","h","a","t","t","a","n">> >>,
      << <<"b","r","o","n","x">>, <<"B","r","o","n","x">> >>,
      << <<"b","r","o","o","k","l","y","n">>, <<"B","r","o","o","k","l","y","n">> >>,
      << <<"k","i","n","g","s">>, <<"B","r","o","o","k","l","y","n">> >>,
      << <<"k","i","n","g","s"," ","c","o","u","n","t","y">>, <<"B","r","o","o","k","l","y","n">> >>,
      << <<"q","u","e","e","n","s">>, <<"Q","u","e","e","n","s">> >>,
      << <<"q","u","e","e","n","s"," ","c","o","u","n","t","y">>, <<"Q","u","e","e","n","s">> >>,
      << <<"s","t","a","t","e","n"," ","i","s","l","a","n","d">>, <<"S","t","a","t","e","n"," ","I","s","l","a","n","d">> >>,
      << <<"s","t","a","t","e","n","i","s","l">>, <<"S","t","a","t","e","n"," ","I","s","l","a","n","d">> >>,
      << <<"s","t","a","t","e","n">>, <<"S","t","a","t","e","n"," ","I","s","l","a","n","d">> >>,
      << <<"r","i","c","h","m","o","n","d">>, <<"S","t","a","t","e","n"," ","I","s","l","a","n","d">> >>,
      << <<"r","i","c","h","m","o","n","d"," ","c","o","u","n","t","y">>, <<"S","t","a","t","e","n"," ","I","s","l","a","n","d">> >> }

\* dict.get(key, default) on a table of <<key, value>> pairs
DictGet(d, key, default) ==
    IF \E p \in d : p[1] = key THEN (CHOOSE p \in d : p[1] = key)[2] ELSE default

Unknown == <<"U","n","k","n","o","w","n">>

\* normalize_borough with mapping.get(boro, "Unknown"): every unmatched name collapses to "Unknown"
normalize_borough_UnknownDefault(boro) ==
    IF ~Truthy(boro) THEN Unknown
    ELSE DictGet(mapping, StrLower(StrStrip(Str(boro))), Unknown)

\* normalize_borough without the .strip()
normalize_borough_NoStrip(boro) ==
    IF ~Truthy(boro) THEN Unknown
    ELSE DictGet(mapping, StrLower(Str(boro)), StrTitle(StrLower(Str(boro))))

\* normalize_borough(boro): a str result; the function has no raising path
normalize_borough(boro) ==
    IF ~Truthy(boro) THEN Unknown
    ELSE LET b == StrLower(StrStrip(Str(boro)))
         IN DictGet(mapping, b, StrTitle(b))

(***************************************************************************)
(* predictor.py: the demographic dataset and the three lookup tables       *)
(***************************************************************************)
MaxRows == 2

\* the nine aggregated columns of df_merged_big.csv
DemoColumns ==
    {"population", "nyc_poverty_rate", "median_income", "perc_white", "perc_black",
     "perc_asian", "perc_other", "perc_hispanic", "indexscore"}

\* the (zipcode, boro) pairs occurring in the rows of the CSV
CsvPlaces ==
    { [zipcode |-> 10001, boro |-> <<"M","a","n","h","a","t","t","a","n">>],
      [zipcode |-> 11234, boro |-> <<"B","r","o","o","k","l","y","n">>],
      [zipcode |-> 11101, boro |-> <<"Q","u","e","e","n","s">>] }

\* demographic value rows occurring in the CSV (whole units)
DemoProfiles ==
    { [population |-> 100, nyc_poverty_rate |-> 20, median_income |-> 50, perc_white |-> 30,
       perc_black |-> 25, perc_asian |-> 15, perc_other |-> 5, perc_hispanic |-> 22, indexscore |-> 4],
      [population |-> 81, nyc_poverty_rate |-> 13, median_income |-> 70, perc_white |-> 41,
       perc_black |-> 12, perc_asian |-> 27, perc_other |-> 3, perc_hispanic |-> 16, indexscore |-> 7] }

\* a row of pd.read_csv(DATA_PATH): zipcode is read as an integer column
CsvRows == { [zipcode |-> p.zipcode, boro |-> p.boro, demo |-> d] : p \in CsvPlaces, d \in DemoProfiles }

CsvFiles == UNION { [1..n -> CsvRows] : n \in 1..MaxRows }

\* df_demo["zipcode"] = df_demo["zipcode"].astype(str)
ZipcodeAsStr(csv) == [i \in 1..Len(csv) |-> [csv[i] EXCEPT !.zipcode = IntToStr(csv[i].zipcode)]]

RECURSIVE InsertSorted(_, _)
InsertSorted(x, s) ==
    IF s = <<>> THEN <<x>>
    ELSE IF x <= Head(s) THEN <<x>> \o s
    ELSE <<Head(s)>> \o InsertSorted(x, Tail(s))

RECURSIVE SortValues(_)
SortValues(s) == IF s = <<>> THEN <<>> ELSE InsertSorted(Head(s), SortValues(Tail(s)))

\* "median" of a non-empty column of whole numbers, in half units
Median(vals) ==
    LET s == SortValues(vals)
        n == Len(s)
    IN IF n % 2 = 1 THEN 2 * s[(n + 1) \div 2] ELSE s[n \div 2] + s[(n \div 2) + 1]

\* the rows of one group, in frame order
GroupRows(df, col, key) == SelectSeq(df, LAMBDA r : r[col] = key)

GroupKeys(df, col) == { df[i][col] : i \in 1..Len(df) }

\* .agg({... "median"}) over a sequence of rows
AggMedians(rows) == [c \in DemoColumns |-> Median([i \in 1..Len(rows) |-> rows[i].demo[c]])]

\* zip_group = df_demo.groupby("zipcode").agg({..., "boro": "first"}); ZIP_LOOKUP = zip_group.set_index("zipcode")
BuildZipLookup(df) ==
    [z \in GroupKeys(df, "zipcode") |->
        [demo |-> AggMedians(GroupRows(df, "zipcode", z)), boro |-> GroupRows(df, "zipcode", z)[1].boro]]

\* boro_group = df_demo.groupby("boro").agg({...}); BORO_LOOKUP = boro_group.set_index("boro")
BuildBoroLookup(df) ==
    [b \in GroupKeys(df, "boro") |-> [demo |-> AggMedians(GroupRows(df, "boro", b))]]

\* GLOBAL_FALLBACK = df_demo.agg({... "median"})
BuildGlobalFallback(df) == AggMedians(df)

\* the value of a module global before the statement that assigns it has run
Undefined == <<>>

\* what pd.read_csv(DATA_PATH) finds: no readable file, a CSV without the
\* zipcode column, or a CSV with the expected columns
DataFiles ==
    { [readable |-> FALSE, columns |-> {}, rows |-> <<>>],
      [readable |-> TRUE, columns |-> {"boro"} \cup DemoColumns,
       rows |-> <<[boro |-> <<"Q","u","e","e","n","s">>, demo |-> CHOOSE d \in DemoProfiles : TRUE]>>] }
    \cup { [readable |-> TRUE, columns |-> {"zipcode", "boro"} \cup DemoColumns, rows |-> csv] : csv \in CsvFiles }

\* the module-level statements up to GLOBAL_FALLBACK: the globals they
\* assign, or the exception that ends the import
ModuleImport(file) ==
    IF ~file.readable THEN Raised("FileNotFoundError")
    ELSE IF "zipcode" \notin file.columns THEN Raised("RuntimeError")
    ELSE Returned([df_demo |-> ZipcodeAsStr(file.rows),
                   ZIP_LOOKUP |-> BuildZipLookup(ZipcodeAsStr(file.rows)),
                   BORO_LOOKUP |-> BuildBoroLookup(ZipcodeAsStr(file.rows)),
                   GLOBAL_FALLBACK |-> BuildGlobalFallback(ZipcodeAsStr(file.rows))])

(***************************************************************************)
(* Python / pandas built-ins used by predictor.py                          *)
(***************************************************************************)
IsDigits(s) == s # <<>> /\ \A i \in 1..Len(s) : IsIn(DigitChars, s[i])

RECURSIVE ParseNat(_)
ParseNat(s) ==
    IF s = <<>> THEN 0
    ELSE 10 * ParseNat(SubSeq(s, 1, Len(s) - 1)) + (IndexOf(DigitChars, s[Len(s)]) - 1)

\* float(x).  Of the str literals float() accepts, the model parses unsigned
\* digit strings and "nan" (any case), surrounded by whitespace or not.
ToFloat(x) ==
    CASE x.t = "int" -> Returned(PyFloat(2 * x.n))
      [] x.t = "float" -> Returned(x)
      [] x.t = "str" ->
            IF IsDigits(StrStrip(x.s)) THEN Returned(PyFloat(2 * ParseNat(StrStrip(x.s))))
            ELSE IF StrLower(StrStrip(x.s)) = <<"n","a","n">> THEN Returned(PyNaN)
            ELSE Raised("ValueError")
      [] OTHER -> Raised("TypeError")

\* int(x), for the non-negative numbers of the model
ToInt(x) ==
    CASE x.t = "int" -> Returned(x)
      [] x.t = "float" -> IF x.nan THEN Raised("ValueError") ELSE Returned(PyInt(x.h \div 2))
      [] x.t = "str" ->
            IF IsDigits(StrStrip(x.s)) THEN Returned(PyInt(ParseNat(StrStrip(x.s))))
            ELSE Raised("ValueError")
      [] OTHER -> Raised("TypeError")

\* pd.isna(x) of a scalar
IsNaScalar(x) == x.t = "NoneType" \/ (x.t = "float" /\ x.nan)

\* pd.isna(x) in a boolean context: "True", "False", or the ValueError numpy
\* raises for the truth value of an array with more than one element
\* (pd.isna of a list is the element-wise array)
IsNaTruth(x) ==
    IF x.t = "list"
    THEN IF Len(x.elems) = 1
         THEN (IF IsNaScalar(x.elems[1]) THEN "True" ELSE "False")
         ELSE "ValueError"
    ELSE IF IsNaScalar(x) THEN "True" ELSE "False"

\* raw.get(key, default)
Get(raw, key, default) == IF key \in DOMAIN raw THEN raw[key] ELSE default

\* a | b on dicts
DictMerge(a, b) == [k \in (DOMAIN a) \cup (DOMAIN b) |-> IF k \in DOMAIN b THEN b[k] ELSE a[k]]

(***************************************************************************)
(* predictor.py: helpers                                                   *)
(***************************************************************************)
FEATURE_COLUMNS ==
    <<"score", "nyc_poverty_rate", "median_income", "perc_white", "perc_black", "perc_asian",
      "perc_other", "perc_hispanic", "indexscore", "population", "pop_missing", "demo_missing",
      "boro", "zipcode", "cuisine_description", "violation_code", "critical_flag">>

_normalize_boro(boro) ==
    LET test == IF ~Truthy(boro) THEN "True" ELSE IsNaTruth(boro)
        b == StrStrip(Str(boro))
    IN IF test = "ValueError" THEN Raised("ValueError")
       ELSE IF test = "True" THEN Returned(Unknown)
       ELSE IF StrLower(b) \in {<<"b","r","o","n","x">>} THEN Returned(<<"B","r","o","n","x">>)
       ELSE IF StrLower(b) \in {<<"b","r","o","o","k","l","y","n">>} THEN Returned(<<"B","r","o","o","k","l","y","n">>)
       ELSE IF StrLower(b) \in {<<"m","a","n","h","a","t","t","a","n">>} THEN Returned(<<"M","a","n","h","a","t","t","a","n">>)
       ELSE IF StrLower(b) \in {<<"q","u","e","e","n","s">>} THEN Returned(<<"Q","u","e","e","n","s">>)
       ELSE IF StrLower(b) \in {<<"s","t","a","t","e","n"," ","i","s","l","a","n","d">>,
                                <<"s","t","a","t","e","n","i","s","l","a","n","d">>}
            THEN Returned(<<"S","t","a","t","e","n"," ","I","s","l","a","n","d">>)
       ELSE Returned(b)

\* demo["population"] = float(row["population"]) ... for the nine columns
DemoOfRow(row) == [c \in DemoColumns |-> PyFloat(row[c])]

\* the two flags with demo_missing left at its initial 0
MissingFlags_PopOnly(pop_missing, demo_missing) ==
    [pop_missing |-> PyInt(pop_missing), demo_missing |-> PyInt(0)]

MissingFlags(pop_missing, demo_missing) ==
    [pop_missing |-> PyInt(pop_missing), demo_missing |-> PyInt(demo_missing)]

\* 1) the ZIP-level branch
ZipTier(z) == DictMerge(DemoOfRow(ZIP_LOOKUP[z].demo), MissingFlags(0, 0))

\* the BORO-level branch with the ZIP branch's flags copied over
BoroTier_ZipFlags(b_norm) == DictMerge(DemoOfRow(BORO_LOOKUP[b_norm].demo), MissingFlags(0, 0))

\* 2) the BORO-level branch
BoroTier(b_norm) == DictMerge(DemoOfRow(BORO_LOOKUP[b_norm].demo), MissingFlags(1, 1))

\* the global branch with two demographic columns crossed
GlobalTier_Crossed ==
    DictMerge([DemoOfRow(GLOBAL_FALLBACK) EXCEPT !.perc_white = PyFloat(GLOBAL_FALLBACK.perc_black),
                                                 !.perc_black = PyFloat(GLOBAL_FALLBACK.perc_white)],
              MissingFlags(1, 1))

\* 3) the global branch
GlobalTier == DictMerge(DemoOfRow(GLOBAL_FALLBACK), MissingFlags(1, 1))

\* z and z in ZIP_LOOKUP.index, for z = None or a str
ZipFound(z) == z.t = "str" /\ z.s # <<>> /\ z.s \in DOMAIN ZIP_LOOKUP

\* _get_demo_for_location trying the borough before the ZIP
_get_demo_for_location_BoroFirst(zipcode, boro) ==
    LET z == IF zipcode.t # "NoneType" THEN PyStr(StrStrip(Str(zipcode))) ELSE PyNone
        b_norm == _normalize_boro(boro)
    IN IF ~b_norm.ok THEN b_norm
       ELSE IF b_norm.v \in DOMAIN BORO_LOOKUP THEN Returned(BoroTier(b_norm.v))
       ELSE IF ZipFound(z) THEN Returned(ZipTier(z.s))
       ELSE Returned(GlobalTier)

_get_demo_for_location(zipcode, boro) ==
    LET z == IF zipcode.t # "NoneType" THEN PyStr(StrStrip(Str(zipcode))) ELSE PyNone
        b_norm == _normalize_boro(boro)
    IN IF ~b_norm.ok THEN b_norm
       ELSE IF ZipFound(z) THEN Returned(ZipTier(z.s))
       ELSE IF b_norm.v \in DOMAIN BORO_LOOKUP THEN Returned(BoroTier(b_norm.v))
       ELSE Returned(GlobalTier)

(***************************************************************************)
(* predictor.py: field extraction and feature assembly                     *)
(***************************************************************************)
ExtractScore(raw) ==
    LET score == Get(raw, "score", PyNone)
        test == IF score.t = "NoneType" THEN "True" ELSE IsNaTruth(score)
    IN IF test = "ValueError" THEN Raised("ValueError")
       ELSE IF test = "True" THEN Returned(PyFloat(20))
       ELSE ToFloat(score)

ExtractBoro(raw) ==
    Or(Get(raw, "boro", PyNone), Or(Get(raw, "borough", PyNone), Get(raw, "Boro", PyNone)))

ExtractZipcode(raw) ==
    LET zipcode == Or(Get(raw, "zipcode", PyNone),
                      Or(Get(raw, "zip", PyNone),
                         Or(Get(raw, "postal_code", PyNone), Get(raw, "postalCode", PyNone))))
    IN IF zipcode.t # "NoneType" THEN PyStr(StrStrip(Str(zipcode))) ELSE zipcode

ExtractCuisine(raw) ==
    Or(Get(raw, "cuisine_description", PyNone),
       Or(Get(raw, "cuisine", PyNone),
          Or(Get(raw, "type", PyNone), PyStr(<<"U","n","k","n","o","w","n">>))))

ExtractViolationCode(raw) == Or(Get(raw, "violation_code", PyNone), PyStr(<<"N","O","N","E">>))

ExtractCriticalFlag(raw) ==
    LET critical_flag == Get(raw, "critical_flag", PyInt(0))
        flag == IF critical_flag.t = "str"
                THEN (IF StrUpper(StrStrip(critical_flag.s)) = <<"C","R","I","T","I","C","A","L">>
                      THEN PyInt(1) ELSE PyInt(0))
                ELSE critical_flag
    IN IF ToInt(flag).ok THEN ToInt(flag).v ELSE PyInt(0)

_extract_base_fields(raw) ==
    LET score == ExtractScore(raw)
    IN IF ~score.ok THEN score
       ELSE Returned([score |-> score.v,
                      boro |-> ExtractBoro(raw),
                      zipcode |-> ExtractZipcode(raw),
                      cuisine_description |-> ExtractCuisine(raw),
                      violation_code |-> ExtractViolationCode(raw),
                      critical_flag |-> ExtractCriticalFlag(raw)])

\* full_features with the extracted borough written as it came, trimmed
FullFeatures_RawBoro(base, demo, boro_norm) ==
    [score |-> base.score,
     nyc_poverty_rate |-> demo.nyc_poverty_rate,
     median_income |-> demo.median_income,
     perc_white |-> demo.perc_white,
     perc_black |-> demo.perc_black,
     perc_asian |-> demo.perc_asian,
     perc_other |-> demo.perc_other,
     perc_hispanic |-> demo.perc_hispanic,
     indexscore |-> demo.indexscore,
     population |-> demo.population,
     pop_missing |-> demo.pop_missing,
     demo_missing |-> demo.demo_missing,
     boro |-> IF Truthy(base.boro) THEN PyStr(StrStrip(Str(base.boro))) ELSE PyStr(boro_norm),
     zipcode |-> IF base.zipcode.t # "NoneType" THEN base.zipcode ELSE PyStr(<<>>),
     cuisine_description |-> base.cuisine_description,
     violation_code |-> base.violation_code,
     critical_flag |-> base.critical_flag]

\* full_features of _build_feature_df, from the extracted fields, the resolved
\* demographics and the normalized borough
FullFeatures(base, demo, boro_norm) ==
    [score |-> base.score,
     nyc_poverty_rate |-> demo.nyc_poverty_rate,
     median_income |-> demo.median_income,
     perc_white |-> demo.perc_white,
     perc_black |-> demo.perc_black,
     perc_asian |-> demo.perc_asian,
     perc_other |-> demo.perc_other,
     perc_hispanic |-> demo.perc_hispanic,
     indexscore |-> demo.indexscore,
     population |-> demo.population,
     pop_missing |-> demo.pop_missing,
     demo_missing |-> demo.demo_missing,
     boro |-> PyStr(boro_norm),
     zipcode |-> IF base.zipcode.t # "NoneType" THEN base.zipcode ELSE PyStr(<<>>),
     cuisine_description |-> base.cuisine_description,
     violation_code |-> base.violation_code,
     critical_flag |-> base.critical_flag]

\* Series.astype(str), cell by cell
AsTypeStr(row, col) == [row EXCEPT ![col] = PyStr(Str(row[col]))]

\* Series.astype(int) of the critical_flag column, which holds a Python int
AsTypeInt(row, col) == [row EXCEPT ![col] = ToInt(row[col]).v]

\* the one-row frame built from the dict as the docstring of utils.py lists
\* its keys (critical_flag before boro), without the reordering
FeatureFrame_DictOrder(full_features) ==
    [columns |-> <<"score", "nyc_poverty_rate", "median_income", "perc_white", "perc_black", "perc_asian",
                   "perc_other", "perc_hispanic", "indexscore", "population", "pop_missing", "demo_missing",
                   "critical_flag", "boro", "zipcode", "cuisine_description", "violation_code">>,
     row |-> AsTypeInt(AsTypeStr(AsTypeStr(AsTypeStr(AsTypeStr(full_features,
                 "zipcode"), "boro"), "cuisine_description"), "violation_code"), "critical_flag")]

\* the one-row frame: columns in FEATURE_COLUMNS order, then the dtype fixes
FeatureFrame(full_features) ==
    LET row_ordered == [c \in {FEATURE_COLUMNS[i] : i \in 1..Len(FEATURE_COLUMNS)} |-> full_features[c]]
    IN [columns |-> FEATURE_COLUMNS,
        row |-> AsTypeInt(AsTypeStr(AsTypeStr(AsTypeStr(AsTypeStr(row_ordered,
                    "zipcode"), "boro"), "cuisine_description"), "violation_code"), "critical_flag")]

_build_feature_df(raw) ==
    LET base == _extract_base_fields(raw)
        demo == _get_demo_for_location(base.v.zipcode, base.v.boro)
        boro_norm == _normalize_boro(base.v.boro)
        full_features == FullFeatures(base.v, demo.v, boro_norm.v)
    IN IF ~base.ok THEN base
       ELSE IF ~demo.ok THEN demo
       ELSE IF ~boro_norm.ok THEN boro_norm
       ELSE Returned([df |-> FeatureFrame(full_features), full_features |-> full_features])

(***************************************************************************)
(* utils.py: build_feature_vector_from_raw                                 *)
(***************************************************************************)
\* a float the source writes as a decimal literal, kept in hundredths
PyFloatHundredths(c) == [t |-> "float", nan |-> FALSE, c |-> c]

\* the hard-coded demographics of the "ZIP not found" branch
DemoDefaults ==
    [nyc_poverty_rate |-> PyFloatHundredths(20),
     median_income |-> PyInt(30000),
     perc_white |-> PyFloatHundredths(30),
     perc_black |-> PyFloatHundredths(30),
     perc_asian |-> PyFloatHundredths(15),
     perc_other |-> PyFloatHundredths(5),
     perc_hispanic |-> PyFloatHundredths(20),
     indexscore |-> PyFloat(8),
     population |-> PyInt(50000)]

\* lookup_zip_demo(zipcode): the ZIP table's row as a dict, or None
lookup_zip_demo(zipcode) ==
    IF zipcode \in DOMAIN ZIP_LOOKUP THEN Returned(DemoOfRow(ZIP_LOOKUP[zipcode].demo)) ELSE Returned(PyNone)

\* 2. ZIP -> always string
UtilsZipcode(raw) ==
    LET zipcode == StrStrip(Str(Or(Get(raw, "zipcode", PyNone), PyStr(<<"0","0","0","0","0">>))))
    IN IF zipcode = <<>> THEN <<"0","0","0","0","0">> ELSE zipcode

\* 3. Cuisine -> always string
UtilsCuisine(raw) ==
    LET cuisine == Or(Get(raw, "cuisine_description", PyNone),
                      Or(Get(raw, "cuisine", PyNone), PyStr(<<"O","t","h","e","r">>)))
    IN Or(PyStr(StrLower(StrStrip(Str(cuisine)))), PyStr(<<"o","t","h","e","r">>))

\* 4. Score -> float
UtilsScore(raw) ==
    LET score == ToFloat(Get(raw, "score", PyNone))
    IN IF score.ok THEN score.v ELSE PyFloat(24)

\* 5. Critical flag -> int
UtilsCriticalFlag(raw) ==
    LET crit == Or(Get(raw, "critical_flag", PyNone),
                   Or(Get(raw, "critical_flag_bin", PyNone),
                      Or(Get(raw, "critical_flag_int", PyNone), PyInt(0))))
    IN IF ToInt(crit).ok THEN ToInt(crit).v ELSE PyInt(0)

\* 6. Violation code -> string
UtilsViolationCode(raw) ==
    LET vio == Or(Get(raw, "violation_code", PyNone), PyStr(<<"0","0","X">>))
    IN Or(PyStr(StrStrip(Str(vio))), PyStr(<<"0","0","X">>))

\* the keys of the features dict, in insertion order
FeatureDictKeys ==
    <<"score", "nyc_poverty_rate", "median_income", "perc_white", "perc_black", "perc_asian",
      "perc_other", "perc_hispanic", "indexscore", "population", "pop_missing", "demo_missing",
      "critical_flag", "boro", "zipcode", "cuisine_description", "violation_code">>

build_feature_vector_from_raw(raw) ==
    LET borough == normalize_borough(Or(Get(raw, "boro", PyNone),
                                        Or(Get(raw, "borough", PyNone), PyStr(Unknown))))
        zipcode == UtilsZipcode(raw)
        demo == lookup_zip_demo(zipcode).v
        found == demo # PyNone
        demographics == IF found THEN [c \in DemoColumns |-> Get(demo, c, DemoDefaults[c])] ELSE DemoDefaults
        flags == IF found THEN MissingFlags(0, 0) ELSE MissingFlags(1, 1)
        fields == [score |-> UtilsScore(raw),
                   critical_flag |-> UtilsCriticalFlag(raw),
                   boro |-> PyStr(borough),
                   zipcode |-> PyStr(zipcode),
                   cuisine_description |-> UtilsCuisine(raw),
                   violation_code |-> UtilsViolationCode(raw)]
    IN Returned([keys |-> FeatureDictKeys, row |-> DictMerge(DictMerge(demographics, flags), fields)])

(***************************************************************************)
(* predictor.py: public prediction functions.  The classifier is the       *)
(* pickled object `model`; the module sees only what its methods return or *)
(* raise, so a model is given by its attributes and its answers.           *)
(***************************************************************************)
\* model.classes_
classes_ == <<"A", "B", "C">>

\* one invocation of a method of the classifier, with the frame it was given
ModelCall(method, X, outcome) == [method |-> method, X |-> X, outcome |-> outcome]

\* the dict holding the most probable label only
ProbDict_TopOnly(classes, probs) ==
    LET top == CHOOSE i \in 1..Len(probs) : \A j \in 1..Len(probs) : probs[j] <= probs[i]
    IN [label \in {classes[top]} |-> PyFloat(probs[top])]

\* {label: float(p) for label, p in zip(model.classes_, probs)}
ProbDict(classes, probs) ==
    LET n == IF Len(classes) < Len(probs) THEN Len(classes) ELSE Len(probs)
        last(label) == CHOOSE i \in 1..n : classes[i] = label /\ \A j \in (i + 1)..n : classes[j] # label
    IN [label \in {classes[i] : i \in 1..n} |-> PyFloat(probs[last(label)])]

\* what a prediction function returns
Result(pred, prob_dict, features_used) ==
    Returned([grade |-> pred, probabilities |-> prob_dict, features_used |-> features_used])

\* the lines after the assembly with the classifier's error caught and a
\* default grade returned
Classify_DefaultGrade(built, model) ==
    LET pred == ModelCall("predict", built.v.df, model.predict)
        probs == ModelCall("predict_proba", built.v.df, model.predict_proba)
        features_used == built.v.full_features
    IN IF ~built.ok THEN [ret |-> built, calls |-> <<>>]
       ELSE IF ~model.predict.ok THEN [ret |-> Result(PyStr(<<"A">>), <<>>, features_used), calls |-> <<pred>>]
       ELSE IF ~model.has_predict_proba
            THEN [ret |-> Result(model.predict.v, <<>>, features_used), calls |-> <<pred>>]
       ELSE IF ~model.predict_proba.ok
            THEN [ret |-> Result(model.predict.v, <<>>, features_used), calls |-> <<pred, probs>>]
       ELSE [ret |-> Result(model.predict.v, ProbDict(classes_, model.predict_proba.v), features_used),
             calls |-> <<pred, probs>>]

\* the lines after the assembly, given what the assembly returned or raised
\* (X, features_used): model.predict, then model.predict_proba when the
\* classifier has it; the value returned or the exception raised, and the
\* classifier calls made
Classify(built, model) ==
    LET pred == ModelCall("predict", built.v.df, model.predict)
        probs == ModelCall("predict_proba", built.v.df, model.predict_proba)
        features_used == built.v.full_features
    IN IF ~built.ok THEN [ret |-> built, calls |-> <<>>]
       ELSE IF ~model.predict.ok THEN [ret |-> model.predict, calls |-> <<pred>>]
       ELSE IF ~model.has_predict_proba
            THEN [ret |-> Result(model.predict.v, <<>>, features_used), calls |-> <<pred>>]
       ELSE IF ~model.predict_proba.ok THEN [ret |-> model.predict_proba, calls |-> <<pred, probs>>]
       ELSE [ret |-> Result(model.predict.v, ProbDict(classes_, model.predict_proba.v), features_used),
             calls |-> <<pred, probs>>]

predict_restaurant_grade(restaurant_data, model) == Classify(_build_feature_df(restaurant_data), model)

predict_from_raw_restaurant(raw_restaurant, model) == Classify(_build_feature_df(raw_restaurant), model)

(***************************************************************************)
(* places.py.  The Google services are the environment: a call is given    *)
(* the API key of the process and the JSON the service answers.            *)
(***************************************************************************)
\* s.startswith(prefix) at position i: the occurrence test of s.find / "in"
OccursAt(sub, s, i) == i + Len(sub) - 1 <= Len(s) /\ SubSeq(s, i, i + Len(sub) - 1) = sub

\* sub in s
Contains(sub, s) == \E i \in 1..(Len(s) + 1) : OccursAt(sub, s, i)

\* s.endswith(suffix)
EndsWith(s, suffix) == Len(suffix) <= Len(s) /\ SubSeq(s, Len(s) - Len(suffix) + 1, Len(s)) = suffix

RECURSIVE StrReplace(_, _, _)
\* s.replace(old, new), for a non-empty old: left to right, without overlap
StrReplace(s, old, new) ==
    IF s = <<>> THEN <<>>
    ELSE IF OccursAt(old, s, 1) THEN new \o StrReplace(SubSeq(s, Len(old) + 1, Len(s)), old, new)
    ELSE <<Head(s)>> \o StrReplace(Tail(s), old, new)

\* keyword_map, in insertion order
keyword_map ==
    << <<<<"f","a","s","t","_","f","o","o","d">>, <<"F","a","s","t"," ","F","o","o","d">>>>,
       <<<<"p","i","z","z","a">>, <<"P","i","z","z","a">>>>,
       <<<<"c","a","f","e">>, <<"C","a","f","e">>>>,
       <<<<"b","a","r">>, <<"B","a","r">>>>,
       <<<<"b","a","k","e","r","y">>, <<"B","a","k","e","r","y">>>>,
       <<<<"s","e","a","f","o","o","d">>, <<"S","e","a","f","o","o","d">>>>,
       <<<<"s","t","e","a","k","h","o","u","s","e">>, <<"S","t","e","a","k","h","o","u","s","e">>>>,
       <<<<"s","a","n","d","w","i","c","h">>, <<"S","a","n","d","w","i","c","h","e","s">>>>,
       <<<<"d","e","l","i">>, <<"D","e","l","i">>>> >>

\* t.replace("_restaurant", "").replace("_", " ").title()
CuisineOfRestaurantType(t) ==
    StrTitle(StrReplace(StrReplace(t, <<"_","r","e","s","t","a","u","r","a","n","t">>, <<>>), <<"_">>, <<" ">>))

\* map_google_types_to_cuisine with the keyword pass run before the
\* "_restaurant" pass
map_google_types_to_cuisine_KeywordsFirst(types_list) ==
    LET types == types_list.elems
        hits == { p \in (1..Len(types)) \X (1..Len(keyword_map)) : Contains(keyword_map[p[2]][1], types[p[1]].s) }
        first == CHOOSE p \in hits : \A q \in hits : p[1] < q[1] \/ (p[1] = q[1] /\ p[2] <= q[2])
        tagged == { i \in 1..Len(types) : EndsWith(types[i].s, <<"_","r","e","s","t","a","u","r","a","n","t">>) }
    IN IF ~Truthy(types_list) THEN <<"U","n","k","n","o","w","n">>
       ELSE IF hits # {} THEN keyword_map[first[2]][2]
       ELSE IF tagged # {} THEN CuisineOfRestaurantType(types[CHOOSE i \in tagged : \A j \in tagged : i <= j].s)
       ELSE <<"O","t","h","e","r">>

\* map_google_types_to_cuisine(types_list), for None or a list of str
map_google_types_to_cuisine(types_list) ==
    LET types == types_list.elems
        tagged == { i \in 1..Len(types) : EndsWith(types[i].s, <<"_","r","e","s","t","a","u","r","a","n","t">>) }
        hits == { p \in (1..Len(types)) \X (1..Len(keyword_map)) : Contains(keyword_map[p[2]][1], types[p[1]].s) }
        first == CHOOSE p \in hits : \A q \in hits : p[1] < q[1] \/ (p[1] = q[1] /\ p[2] <= q[2])
    IN IF ~Truthy(types_list) THEN <<"U","n","k","n","o","w","n">>
       ELSE IF tagged # {} THEN CuisineOfRestaurantType(types[CHOOSE i \in tagged : \A j \in tagged : i <= j].s)
       ELSE IF hits # {} THEN keyword_map[first[2]][2]
       ELSE <<"O","t","h","e","r">>

\* {}
EmptyDict == <<>>

\* google_place_details(place_id): {} without an API key or an OK status
google_place_details(API_KEY, resp) ==
    IF ~Truthy(API_KEY) THEN EmptyDict
    ELSE IF Get(resp, "status", PyNone) # PyStr(<<"O","K">>) THEN EmptyDict
    ELSE Get(resp, "result", EmptyDict)

\* the borough a component names, or the borough found so far
BoroughOfComponent(low, borough) ==
    IF Contains(<<"m","a","n","h","a","t","t","a","n">>, low) \/ Contains(<<"n","e","w"," ","y","o","r","k"," ","c","o","u","n","t","y">>, low) THEN PyStr(<<"M","a","n","h","a","t","t","a","n">>)
    ELSE IF Contains(<<"b","r","o","n","x">>, low) \/ Contains(<<"b","r","o","n","x"," ","c","o","u","n","t","y">>, low) THEN PyStr(<<"B","r","o","n","x">>)
    ELSE IF Contains(<<"b","r","o","o","k","l","y","n">>, low) \/ Contains(<<"k","i","n","g","s"," ","c","o","u","n","t","y">>, low) THEN PyStr(<<"B","r","o","o","k","l","y","n">>)
    ELSE IF Contains(<<"q","u","e","e","n","s">>, low) \/ Contains(<<"q","u","e","e","n","s"," ","c","o","u","n","t","y">>, low) THEN PyStr(<<"Q","u","e","e","n","s">>)
    ELSE IF Contains(<<"s","t","a","t","e","n"," ","i","s","l","a","n","d">>, low) \/ Contains(<<"r","i","c","h","m","o","n","d"," ","c","o","u","n","t","y">>, low)
         THEN PyStr(<<"S","t","a","t","e","n"," ","I","s","l","a","n","d">>)
    ELSE borough

RECURSIVE GeocodeLoop(_, _, _)
\* for comp in result.get("address_components", []): the last postal_code
\* component and the last component naming a borough win
GeocodeLoop(comps, zipcode, borough) ==
    IF comps = <<>> THEN [zipcode |-> zipcode, borough |-> borough]
    ELSE GeocodeLoop(Tail(comps),
                     IF "postal_code" \in Get(Head(comps), "types", {}) THEN PyStr(Head(comps).long_name)
                     ELSE zipcode,
                     BoroughOfComponent(StrLower(Head(comps).long_name), borough))

\* reverse_geocode(lat, lng): zipcode and borough (the address is not used
\* by the caller)
reverse_geocode(API_KEY, resp) ==
    IF ~Truthy(API_KEY) THEN [zipcode |-> PyNone, borough |-> PyNone]
    ELSE IF Get(resp, "results", <<>>) = <<>> THEN [zipcode |-> PyNone, borough |-> PyNone]
    ELSE GeocodeLoop(Get(resp.results[1], "address_components", <<>>), PyNone, PyNone)

\* the record of normalize_place_to_restaurant, given the fields it computed
PlaceRecord(name, address, lat, lng, zipcode, borough, cuisine) ==
    [name |-> name, address |-> address, latitude |-> lat, longitude |-> lng,
     zipcode |-> zipcode, boro |-> borough, borough |-> borough,
     cuisine_description |-> cuisine,
     score |-> PyInt(10), critical_flag |-> PyInt(0), violation_code |-> PyStr(<<"0","0","X">>)]

\* normalize_place_to_restaurant without the "00000" / "Unknown" defaults
normalize_place_to_restaurant_NoDefaults(details, geo) ==
    LET cuisine == map_google_types_to_cuisine(Get(details, "types", PyList(<<>>)))
    IN IF "geometry" \notin DOMAIN details THEN Raised("KeyError")
       ELSE Returned(PlaceRecord(Or(Get(details, "name", PyStr(<<>>)), PyStr(Unknown)),
                                 Or(Get(details, "formatted_address", PyStr(<<>>)), PyStr(Unknown)),
                                 details.geometry.location.lat,
                                 details.geometry.location.lng,
                                 IF Truthy(geo.zipcode) THEN PyStr(Str(geo.zipcode)) ELSE PyStr(<<>>),
                                 geo.borough,
                                 PyStr(cuisine)))

\* normalize_place_to_restaurant(details), geo being what reverse_geocode
\* returns for the position of the place
normalize_place_to_restaurant(details, geo) ==
    LET cuisine == map_google_types_to_cuisine(Get(details, "types", PyList(<<>>)))
    IN IF "geometry" \notin DOMAIN details THEN Raised("KeyError")
       ELSE IF "location" \notin DOMAIN details.geometry THEN Raised("KeyError")
       ELSE IF {"lat", "lng"} \ DOMAIN details.geometry.location # {} THEN Raised("KeyError")
       ELSE Returned(PlaceRecord(Or(Get(details, "name", PyStr(<<>>)), PyStr(Unknown)),
                                 Or(Get(details, "formatted_address", PyStr(<<>>)), PyStr(Unknown)),
                                 details.geometry.location.lat,
                                 details.geometry.location.lng,
                                 IF Truthy(geo.zipcode) THEN PyStr(Str(geo.zipcode))
                                 ELSE PyStr(<<"0","0","0","0","0">>),
                                 IF ~Truthy(geo.borough) THEN PyStr(Unknown) ELSE geo.borough,
                                 IF cuisine = <<>> \/ StrStrip(cuisine) = <<>> THEN PyStr(<<"O","t","h","e","r">>)
                                 ELSE PyStr(cuisine)))

(***************************************************************************)
(* Inputs of the calls                                                     *)
(***************************************************************************)
\* every partial record over the keys of V, a function from keys to value sets
PartialRecords(V) ==
    UNION { { f \in [D -> UNION { V[k] : k \in D }] : \A k \in D : f[k] \in V[k] } : D \in SUBSET (DOMAIN V) }

\* the spellings of one borough name a caller may pass
Spellings(k) == { k, StrUpper(k), StrTitle(k), <<" ">> \o k \o <<" ">>, StrUpper(k) \o <<" ">> }

SynonymKeys == { p[1] : p \in mapping }

BoroughInputs ==
    { PyStr(s) : s \in UNION { Spellings(k) : k \in SynonymKeys } }
    \cup { PyStr(<<"a","t","l","a","n","t","i","s">>), PyStr(<<"t","h","e"," ","b","r","o","n","x">>),
           PyStr(<<"s","t","a","t","e","n","i","s","l","a","n","d">>),
           PyStr(<<>>), PyStr(<<" "," ">>),
           PyNone, PyNaN, PyInt(0), PyInt(5), PyFloat(0), PyFloat(21), PyList(<<>>), PyList(<<PyInt(1), PyInt(2)>>) }

BoroVals ==
    { PyStr(<<"Q","u","e","e","n","s">>), PyStr(<<"B","R","O","O","K","L","Y","N"," ">>),
      PyStr(<<"k","i","n","g","s"," ","c","o","u","n","t","y">>),
      PyStr(<<"r","i","c","h","m","o","n","d">>), PyStr(<<>>), PyNone, PyNaN }

ZipVals ==
    { PyStr(<<"1","1","2","3","4">>), PyInt(11234), PyFloat(22468), PyStr(<<" ","1","0","0","0","1"," ">>),
      PyStr(<<"9","9","9","9","9">>), PyStr(<<>>), PyStr(<<" "," ">>), PyNone, PyInt(0) }

LocationRecords == PartialRecords([borough |-> BoroVals, zipcode |-> ZipVals])

BoroAliasRecords ==
    PartialRecords([boro |-> {PyStr(<<"Q","u","e","e","n","s">>), PyStr(<<>>)},
                    borough |-> {PyStr(<<"B","r","o","o","k","l","y","n">>), PyStr(<<>>)},
                    Boro |-> {PyStr(<<"Q","u","e","e","n","s">>)}])

ZipAliasRecords ==
    PartialRecords([zipcode |-> {PyStr(<<"1","1","2","3","4">>), PyStr(<<>>)},
                    zip |-> {PyStr(<<" ","1","0","0","0","1"," ">>)},
                    postal_code |-> {PyStr(<<"1","1","2","3","4">>)},
                    postalCode |-> {PyStr(<<"9","9","9","9","9">>)}])

ScoreVals ==
    { PyNone, PyNaN, PyInt(7), PyInt(0), PyFloat(25), PyStr(<<"7">>), PyStr(<<"a","b","c">>),
      PyStr(<<"n","a","n">>), PyStr(<<>>), PyList(<<PyInt(1), PyInt(2)>>) }

CriticalVals ==
    { PyNone, PyNaN, PyInt(0), PyInt(1), PyInt(5), PyFloat(2), PyStr(<<"1">>),
      PyStr(<<"C","r","i","t","i","c","a","l">>), PyStr(<<"c","r","i","t","i","c","a","l"," ">>),
      PyStr(<<"N","o","t"," ","C","r","i","t","i","c","a","l">>) }

ScoreRecords == PartialRecords([score |-> ScoreVals])

CriticalRecords == PartialRecords([critical_flag |-> CriticalVals, critical_flag_bin |-> {PyInt(1), PyNone}])

CuisineVals ==
    { PyNone, PyStr(<<>>), PyStr(<<"C","a","r","i","b","b","e","a","n">>),
      PyStr(<<" ","P","i","z","z","a"," ">>), PyInt(5) }

ViolationVals ==
    { PyNone, PyStr(<<>>), PyStr(<<"0","4","L">>), PyStr(<<" ","0","4","L"," ">>), PyInt(10) }

CuisineRecords ==
    PartialRecords([cuisine_description |-> CuisineVals, cuisine |-> {PyStr(<<"T","h","a","i">>)},
                    type |-> {PyStr(<<"c","a","f","e">>)}])

ViolationRecords == PartialRecords([violation_code |-> ViolationVals])

\* the end-to-end scenarios: a dataset-like row with ZIP 11234, and an unknown ZIP in Queens
ScenarioRecords ==
    { [borough |-> PyStr(<<"B","r","o","o","k","l","y","n">>), zipcode |-> PyInt(11234),
       cuisine_description |-> PyStr(<<"c","a","r","i","b","b","e","a","n">>),
       score |-> PyNone, critical_flag_bin |-> PyNone],
      [zipcode |-> PyStr(<<"9","9","9","9","9">>), borough |-> PyStr(<<"Q","u","e","e","n","s">>)] }

\* the empty mapping {}
EmptyRecord == <<>>

RawRecords ==
    LocationRecords \cup BoroAliasRecords \cup ZipAliasRecords \cup ScoreRecords \cup CriticalRecords
    \cup CuisineRecords \cup ViolationRecords \cup ScenarioRecords \cup {EmptyRecord}

\* os.environ.get("GOOGLE_MAPS_API_KEY")
ApiKeys == { PyNone, PyStr(<<"k">>) }

MaxTypes == 2

\* the type tags a place may carry
PlaceTypes ==
    { <<"r","e","s","t","a","u","r","a","n","t">>, <<"f","o","o","d">>, <<"m","e","x","i","c","a","n","_","r","e","s","t","a","u","r","a","n","t">>, <<"f","a","s","t","_","f","o","o","d","_","r","e","s","t","a","u","r","a","n","t">>,
      <<"c","a","f","e">>, <<"p","i","z","z","a","_","t","a","k","e","a","w","a","y">>, <<"_","r","e","s","t","a","u","r","a","n","t">> }

\* details.get("types"): None, or a list of up to MaxTypes tags
TypesLists ==
    { PyNone }
    \cup UNION { { PyList([i \in 1..n |-> PyStr(ts[i])]) : ts \in [1..n -> PlaceTypes] } : n \in 0..MaxTypes }

\* details["geometry"]
Geometry == [location |-> [lat |-> PyFloat(81), lng |-> PyFloat(-148)]]

\* the "result" of a Place Details answer: complete, without name and types,
\* with empty name and types, and without a position
DetailsResults ==
    { [name |-> PyStr(<<"T","a","c","o">>), formatted_address |-> PyStr(<<"1"," ","M","a","i","n"," ","S","t">>), geometry |-> Geometry,
       types |-> PyList(<<PyStr(<<"c","a","f","e">>), PyStr(<<"m","e","x","i","c","a","n","_","r","e","s","t","a","u","r","a","n","t">>)>>)],
      [geometry |-> Geometry],
      [name |-> PyStr(<<>>), geometry |-> Geometry, types |-> PyList(<<>>)],
      [name |-> PyStr(<<"T","a","c","o">>), geometry |-> Geometry, types |-> PyList(<<PyStr(<<"_","r","e","s","t","a","u","r","a","n","t">>)>>)],
      [name |-> PyStr(<<"T","a","c","o">>)] }

\* the JSON of a Place Details answer
DetailsResponses ==
    { [status |-> PyStr(<<"O","K">>), result |-> r] : r \in DetailsResults }
    \cup { [status |-> PyStr(<<"O","K">>)], [status |-> PyStr(<<"Z","E","R","O","_","R","E","S","U","L","T","S">>)],
            [status |-> PyStr(<<"R","E","Q","U","E","S","T","_","D","E","N","I","E","D">>)], EmptyDict }

\* address_components of a geocoding result
AddressComponents ==
    { << [long_name |-> <<"1","1","2","3","4">>, types |-> {"postal_code"}],
         [long_name |-> <<"B","r","o","o","k","l","y","n">>, types |-> {"political", "sublocality"}],
         [long_name |-> <<"K","i","n","g","s"," ","C","o","u","n","t","y">>, types |-> {"administrative_area_level_2", "political"}] >>,
      << [long_name |-> <<"N","e","w"," ","Y","o","r","k">>, types |-> {"locality", "political"}] >>,
      << [long_name |-> <<"Q","u","e","e","n","s">>, types |-> {"political", "sublocality"}] >>,
      << [long_name |-> <<"1","0","0","0","1">>, types |-> {"postal_code"}] >> }

\* the JSON of a geocoding answer
GeocodeResponses ==
    { [results |-> << [address_components |-> comps] >>] : comps \in AddressComponents }
    \cup { [results |-> << [formatted_address |-> <<"N","Y">>] >>], [results |-> <<>>], EmptyDict }

\* the details normalize_place_to_restaurant may be given: whatever
\* google_place_details returns
PlaceDetails == { google_place_details(k, r) : k \in ApiKeys, r \in DetailsResponses }

\* the records of the prediction requests: a dataset row as app.py passes it
\* (missing cuisine read as NaN), a ZIP the table may hold, an unknown ZIP, a
\* score float() rejects, and the empty record
PredictRecords ==
    { [borough |-> PyStr(<<"Q","u","e","e","n","s">>), zipcode |-> PyInt(11101),
       cuisine_description |-> PyNaN, score |-> PyInt(7), critical_flag_bin |-> PyInt(1)],
      [borough |-> PyStr(<<"B","r","o","o","k","l","y","n">>), zipcode |-> PyStr(<<"1","1","2","3","4">>),
       cuisine_description |-> PyStr(<<"C","a","r","i","b","b","e","a","n">>)],
      [boro |-> PyStr(<<"Q","u","e","e","n","s">>), zipcode |-> PyStr(<<"9","9","9","9","9">>)],
      [score |-> PyStr(<<>>)],
      EmptyRecord }

\* what model.predict(X)[0] and model.predict_proba(X)[0] may answer; the
\* probabilities are in half units like every float
PredictOutcomes == { Returned(PyStr(<<"A">>)), Returned(PyStr(<<"C">>)), Raised("NotFittedError") }

PredictProbaOutcomes == { Returned(<<1, 0, 1>>), Raised("NotFittedError") }

\* the classifiers joblib.load may have produced: with predict_proba or without
Models ==
    [has_predict_proba : {TRUE}, predict : PredictOutcomes, predict_proba : PredictProbaOutcomes]
    \cup [has_predict_proba : {FALSE}, predict : PredictOutcomes, predict_proba : {Raised("AttributeError")}]

(***************************************************************************)
(* app.py: one page run of the map and the inspection panel.  A run        *)
(* executes the left column (map, zoom and click handling) and then, unless *)
(* the left column stopped or restarted the run, the right column.         *)
(* Coordinates are in units of 0.0001 degree.                              *)
(***************************************************************************)
\* st.session_state[key] = value
SetItem(d, key, value) == [k \in DOMAIN d \cup {key} |-> IF k = key THEN value ELSE d[k]]

\* st.session_state.setdefault(key, value)
SetDefault(d, key, value) == IF key \in DOMAIN d THEN d ELSE SetItem(d, key, value)

LatLng(lat, lng) == [lat |-> lat, lng |-> lng]

\* (40.7128, -74.0060)
NYC == LatLng(407128, -740060)

\* Session State Initialization
SessionDefaults(state) ==
    SetDefault(SetDefault(SetDefault(state, "map_center", NYC), "map_zoom", PyInt(12)),
               "just_selected_restaurant", FALSE)

\* 0.00002, in squared units of 0.0001 degree
SelectionThreshold == 2000

_dist2(lat1, lon1, lat2, lon2) == (lat1 - lat2) * (lat1 - lat2) + (lon1 - lon2) * (lon1 - lon2)

RECURSIVE ClosestRow(_, _, _)
\* for _, row in df_filtered.iterrows(): the nearest row with coordinates,
\* the first one of equally near rows; None when there is none
ClosestRow(rows, click, best) ==
    IF rows = <<>> THEN best
    ELSE LET row == Head(rows)
             d2 == _dist2(click.lat, click.lng, row.latitude, row.longitude)
         IN ClosestRow(Tail(rows), click,
                       IF row.nan THEN best
                       ELSE IF best = PyNone THEN [item |-> row, d2 |-> d2]
                       ELSE IF d2 < best.d2 THEN [item |-> row, d2 |-> d2]
                       ELSE best)

RECURSIVE ClosestPlace(_, _, _)
\* for place in st.session_state["google_nearby"]
ClosestPlace(places, click, best) ==
    IF places = <<>> THEN best
    ELSE LET place == Head(places)
             d2 == _dist2(click.lat, click.lng, place.geometry.location.lat, place.geometry.location.lng)
         IN ClosestPlace(Tail(places), click,
                         IF best = PyNone THEN [item |-> place, d2 |-> d2]
                         ELSE IF d2 < best.d2 THEN [item |-> place, d2 |-> d2]
                         ELSE best)

\* every click is taken for a new one
IsNewClick_Always(state, click) == TRUE

\* st.session_state.get("last_processed_click") != click
IsNewClick(state, click) == Get(state, "last_processed_click", PyNone) # click

\* what a part of the run did: the session state it leaves, the panel it
\* produced, the calls it made and how it ended ("" when it ran through)
RunPart(state, panel, requests, ended) ==
    [session_state |-> state, panel |-> panel, requests |-> requests, ended |-> ended]

\* the script down to the end of the left column; map_data is what the map
\* widget reports in this run and places what a nearby search would answer
left_col(state, df_filtered, map_data, places) ==
    LET s0 == SessionDefaults(state)
        center == s0.map_center
        zoom == s0.map_zoom
        s1 == IF s0.just_selected_restaurant THEN SetItem(s0, "just_selected_restaurant", FALSE) ELSE s0
        zooming == /\ map_data # PyNone
                   /\ map_data.zoom # zoom
                   /\ map_data.last_clicked = PyNone
                   /\ ~s1.just_selected_restaurant
        s2 == IF map_data # PyNone /\ map_data.center # PyNone /\ map_data.center # center
              THEN SetItem(s1, "map_center", map_data.center) ELSE s1
        s3 == IF map_data # PyNone /\ Truthy(map_data.zoom) /\ ~s2.just_selected_restaurant
              THEN SetItem(s2, "map_zoom", map_data.zoom) ELSE s2
        click == map_data.last_clicked
        s4 == SetItem(SetItem(SetItem(SetItem(SetItem(s3,
                  "last_processed_click", click),
                  "map_click", click),
                  "google_nearby", places),
                  "google_restaurant_nearby", PyNone),
                  "google_restaurant", PyNone)
    IN IF df_filtered = <<>> THEN [center |-> PyNone, zoom |-> PyNone, part |-> RunPart(s0, "none", <<>>, "")]
       ELSE IF zooming THEN [center |-> center, zoom |-> zoom, part |-> RunPart(s1, "none", <<>>, "st.stop")]
       ELSE IF map_data # PyNone /\ click # PyNone /\ IsNewClick(s3, click)
            THEN [center |-> center, zoom |-> zoom,
                  part |-> RunPart(s4, "none", <<"google_nearby_restaurants">>, "st.rerun")]
       ELSE [center |-> center, zoom |-> zoom, part |-> RunPart(s3, "none", <<>>, "")]

\* the panels with the Google nearby place tried before the dataset restaurant
Panel_GoogleFirst(has_click, near_dataset, near_google) ==
    IF has_click /\ near_google THEN "google_nearby"
    ELSE IF has_click /\ near_dataset THEN "dataset"
    ELSE IF has_click THEN "map_click"
    ELSE "default"

\* PRIORITY 1 to 4 of the right column
Panel(has_click, near_dataset, near_google) ==
    IF has_click /\ near_dataset THEN "dataset"
    ELSE IF has_click /\ near_google THEN "google_nearby"
    ELSE IF has_click THEN "map_click"
    ELSE "default"

\* the right column; API_KEY is the key of the process, details_resp and
\* geo_resp what the Google services would answer
right_col(state, df_filtered, API_KEY, details_resp, geo_resp) ==
    LET s0 == SetDefault(SetDefault(state, "google_nearby", <<>>), "map_click", PyNone)
        has_click == s0.map_click # PyNone
        closest_row == ClosestRow(df_filtered, s0.map_click, PyNone)
        closest_place == ClosestPlace(s0.google_nearby, s0.map_click, PyNone)
        near_dataset == df_filtered # <<>> /\ closest_row # PyNone /\ closest_row.d2 < SelectionThreshold
        near_google == s0.google_nearby # <<>> /\ closest_place # PyNone /\ closest_place.d2 < SelectionThreshold
        panel == Panel(has_click, has_click /\ near_dataset, has_click /\ near_google)
        selected == SetItem(s0, "just_selected_restaurant", TRUE)
        norm == normalize_place_to_restaurant(google_place_details(API_KEY, details_resp),
                                              reverse_geocode(API_KEY, geo_resp))
    IN IF panel = "dataset"
       THEN RunPart(selected, panel, <<"predict_from_raw_restaurant(raw_restaurant)">>, "st.stop")
       ELSE IF panel = "google_nearby"
       THEN IF ~norm.ok THEN RunPart(selected, panel, <<"google_place_details">>, norm.exc)
            ELSE RunPart(SetItem(selected, "google_restaurant_nearby", norm.v), panel,
                         <<"google_place_details", "reverse_geocode", "predict_from_raw_restaurant(norm)">>,
                         "st.stop")
       ELSE IF panel = "map_click"
       THEN IF ~Truthy(API_KEY) THEN RunPart(s0, panel, <<>>, "KeyError")
            ELSE RunPart(s0, panel, <<"requests.get(geo_url)">>, "st.stop")
       ELSE RunPart(s0, panel, <<>>, "")

\* the positions of the map: a dataset restaurant, a Google place next to
\* it, a Google place elsewhere, and the clicks
RestaurantAt == NYC

PlaceNearRestaurantAt == LatLng(NYC.lat + 10, NYC.lng)

PlaceAt == LatLng(NYC.lat, NYC.lng + 400)

Clicks == { LatLng(NYC.lat + 30, NYC.lng), LatLng(NYC.lat, NYC.lng + 410), LatLng(NYC.lat + 500, NYC.lng) }

\* df_filtered: no row, one restaurant, or rows of which one has no coordinates
DatasetViews ==
    { <<>>,
      << [dba |-> "A", nan |-> FALSE, latitude |-> RestaurantAt.lat, longitude |-> RestaurantAt.lng] >>,
      << [dba |-> "B", nan |-> TRUE, latitude |-> 0, longitude |-> 0],
         [dba |-> "A", nan |-> FALSE, latitude |-> RestaurantAt.lat, longitude |-> RestaurantAt.lng] >> }

\* what google_nearby_restaurants answers
NearbyResults ==
    { <<>>,
      << [place_id |-> "p1", geometry |-> [location |-> PlaceAt]] >>,
      << [place_id |-> "p1", geometry |-> [location |-> PlaceAt]],
         [place_id |-> "p2", geometry |-> [location |-> PlaceNearRestaurantAt]] >> }

\* what st_folium returns: nothing yet, or the last click, the center and
\* the zoom of the map in the browser
MapData ==
    { PyNone }
    \cup { [last_clicked |-> c, center |-> ce, zoom |-> z] :
             c \in {PyNone} \cup Clicks, ce \in {NYC, PlaceAt}, z \in {PyInt(12), PyInt(15)} }

\* the answers of Place Details and of geocoding in the right column
AppDetailsResponses ==
    { [status |-> PyStr(<<"O","K">>),
       result |-> [name |-> PyStr(<<"T","a","c","o">>), geometry |-> [location |-> [lat |-> PyFloat(81), lng |-> PyFloat(-148)]],
                   types |-> PyList(<<PyStr(<<"c","a","f","e">>)>>)]],
      [status |-> PyStr(<<"R","E","Q","U","E","S","T","_","D","E","N","I","E","D">>)] }

AppGeocodeResponses ==
    { [results |-> << [address_components |-> << [long_name |-> <<"1","1","2","3","4">>, types |-> {"postal_code"}] >>] >>],
      [results |-> <<>>] }

(***************************************************************************)
(* The program: module import builds the tables once, then calls           *)
(***************************************************************************)
NoCall == [op |-> "none", arg |-> PyNone]

NoResult == Returned(PyNone)

\* no earlier request is remembered
NoPrev == [call |-> NoCall, ret |-> NoResult]

Init ==
    /\ df_demo \in { ZipcodeAsStr(csv) : csv \in CsvFiles }
    /\ ZIP_LOOKUP = BuildZipLookup(df_demo)
    /\ BORO_LOOKUP = BuildBoroLookup(df_demo)
    /\ GLOBAL_FALLBACK = BuildGlobalFallback(df_demo)
    /\ pc = "idle"
    /\ call = NoCall
    /\ ret = NoResult
    /\ model_calls = <<>>
    /\ prev = NoPrev
    /\ session_state = <<>>

\* the process starts: nothing of predictor.py has run
InitImport ==
    /\ df_demo = Undefined
    /\ ZIP_LOOKUP = Undefined
    /\ BORO_LOOKUP = Undefined
    /\ GLOBAL_FALLBACK = Undefined
    /\ pc = "importing"
    /\ call = NoCall
    /\ ret = NoResult
    /\ model_calls = <<>>
    /\ prev = NoPrev
    /\ session_state = <<>>

\* the import with both checks dropped: whatever rows were read are kept and
\* the module finishes importing
Import_Unchecked(file) ==
    /\ pc = "importing"
    /\ pc' = "idle"
    /\ df_demo' = file.rows
    /\ UNCHANGED <<ZIP_LOOKUP, BORO_LOOKUP, GLOBAL_FALLBACK, call, ret, model_calls, prev, session_state>>

\* import src.predictor, with DATA_PATH holding the file: the module globals
\* are assigned, or the import ends with the exception and defines nothing
Import(file) ==
    /\ pc = "importing"
    /\ \E out \in {ModuleImport(file)} :
          IF out.ok
          THEN /\ pc' = "idle"
               /\ df_demo' = out.v.df_demo
               /\ ZIP_LOOKUP' = out.v.ZIP_LOOKUP
               /\ BORO_LOOKUP' = out.v.BORO_LOOKUP
               /\ GLOBAL_FALLBACK' = out.v.GLOBAL_FALLBACK
               /\ UNCHANGED <<call, ret>>
          ELSE /\ pc' = "import_failed"
               /\ call' = [op |-> "import", arg |-> PyNone]
               /\ ret' = out
               /\ UNCHANGED tables
    /\ UNCHANGED <<model_calls, prev, session_state>>

\* a caller evaluates normalize_borough(boro)
CallNormalizeBorough(boro) ==
    /\ pc = "idle"
    /\ pc' = "returned"
    /\ call' = [op |-> "normalize_borough", arg |-> boro]
    /\ ret' = Returned(PyStr(normalize_borough(boro)))
    /\ UNCHANGED <<tables, model_calls, prev, session_state>>

\* a caller evaluates _extract_base_fields(raw)
CallExtractBaseFields(raw) ==
    /\ pc = "idle"
    /\ pc' = "returned"
    /\ call' = [op |-> "_extract_base_fields", arg |-> raw]
    /\ ret' = _extract_base_fields(raw)
    /\ UNCHANGED <<tables, model_calls, prev, session_state>>

\* the ZIP table with the global medians stored under a ZIP it does not hold
Memoized(zipcode) ==
    IF zipcode.t = "str" /\ zipcode.s # <<>> /\ zipcode.s \notin DOMAIN ZIP_LOOKUP
    THEN [z \in DOMAIN ZIP_LOOKUP \cup {zipcode.s} |->
            IF z \in DOMAIN ZIP_LOOKUP THEN ZIP_LOOKUP[z] ELSE [demo |-> GLOBAL_FALLBACK, boro |-> Unknown]]
    ELSE ZIP_LOOKUP

\* _build_feature_df memoizing the fallback of an unknown ZIP in ZIP_LOOKUP
CallBuildFeatureDf_Memo(raw) ==
    /\ pc = "idle"
    /\ pc' = "returned"
    /\ call' = [op |-> "_build_feature_df", arg |-> raw]
    /\ ret' = _build_feature_df(raw)
    /\ ZIP_LOOKUP' = Memoized(ExtractZipcode(raw))
    /\ UNCHANGED <<df_demo, BORO_LOOKUP, GLOBAL_FALLBACK, model_calls, prev, session_state>>

\* _build_feature_df evaluates _get_demo_for_location(zipcode, boro)
CallGetDemoForLocation(zipcode, boro) ==
    /\ pc = "idle"
    /\ pc' = "returned"
    /\ call' = [op |-> "_get_demo_for_location", arg |-> PyNone, zipcode |-> zipcode, boro |-> boro]
    /\ ret' = _get_demo_for_location(zipcode, boro)
    /\ UNCHANGED <<tables, model_calls, prev, session_state>>

\* a caller evaluates _build_feature_df(raw)
CallBuildFeatureDf(raw) ==
    /\ pc = "idle"
    /\ pc' = "returned"
    /\ call' = [op |-> "_build_feature_df", arg |-> raw]
    /\ ret' = _build_feature_df(raw)
    /\ UNCHANGED <<tables, model_calls, prev, session_state>>

\* a caller evaluates build_feature_vector_from_raw(raw)
CallBuildFeatureVectorFromRaw(raw) ==
    /\ pc = "idle"
    /\ pc' = "returned"
    /\ call' = [op |-> "build_feature_vector_from_raw", arg |-> raw]
    /\ ret' = build_feature_vector_from_raw(raw)
    /\ UNCHANGED <<tables, model_calls, prev, session_state>>

\* a request to predict_restaurant_grade, served by the loaded classifier `model`
CallPredictRestaurantGrade(restaurant_data, model) ==
    /\ pc = "idle"
    /\ pc' = "returned"
    /\ call' = [op |-> "predict_restaurant_grade", arg |-> restaurant_data, model |-> model]
    /\ \E out \in {predict_restaurant_grade(restaurant_data, model)} :
          /\ ret' = out.ret
          /\ model_calls' = out.calls
    /\ UNCHANGED <<tables, prev, session_state>>

\* predict_from_raw_restaurant memoizing the fallback of an unknown ZIP
CallPredictFromRawRestaurant_Memo(raw_restaurant, model) ==
    /\ pc = "idle"
    /\ pc' = "returned"
    /\ call' = [op |-> "predict_from_raw_restaurant", arg |-> raw_restaurant, model |-> model]
    /\ \E out \in {predict_from_raw_restaurant(raw_restaurant, model)} :
          /\ ret' = out.ret
          /\ model_calls' = out.calls
    /\ ZIP_LOOKUP' = Memoized(ExtractZipcode(raw_restaurant))
    /\ UNCHANGED <<df_demo, BORO_LOOKUP, GLOBAL_FALLBACK, prev, session_state>>

\* a request to predict_from_raw_restaurant, served by the loaded classifier `model`
CallPredictFromRawRestaurant(raw_restaurant, model) ==
    /\ pc = "idle"
    /\ pc' = "returned"
    /\ call' = [op |-> "predict_from_raw_restaurant", arg |-> raw_restaurant, model |-> model]
    /\ \E out \in {predict_from_raw_restaurant(raw_restaurant, model)} :
          /\ ret' = out.ret
          /\ model_calls' = out.calls
    /\ UNCHANGED <<tables, prev, session_state>>

\* a caller evaluates map_google_types_to_cuisine(types_list)
CallMapGoogleTypesToCuisine(types_list) ==
    /\ pc = "idle"
    /\ pc' = "returned"
    /\ call' = [op |-> "map_google_types_to_cuisine", arg |-> types_list]
    /\ ret' = Returned(PyStr(map_google_types_to_cuisine(types_list)))
    /\ UNCHANGED <<tables, model_calls, prev, session_state>>

\* a caller evaluates google_place_details(place_id); the service answers resp
CallGooglePlaceDetails(API_KEY, resp) ==
    /\ pc = "idle"
    /\ pc' = "returned"
    /\ call' = [op |-> "google_place_details", arg |-> resp, API_KEY |-> API_KEY]
    /\ ret' = Returned(google_place_details(API_KEY, resp))
    /\ UNCHANGED <<tables, model_calls, prev, session_state>>

\* a caller evaluates reverse_geocode(lat, lng); the service answers resp
CallReverseGeocode(API_KEY, resp) ==
    /\ pc = "idle"
    /\ pc' = "returned"
    /\ call' = [op |-> "reverse_geocode", arg |-> resp, API_KEY |-> API_KEY]
    /\ ret' = Returned(reverse_geocode(API_KEY, resp))
    /\ UNCHANGED <<tables, model_calls, prev, session_state>>

\* a caller evaluates normalize_place_to_restaurant(details); the geocoding
\* service answers resp to the reverse_geocode call inside
CallNormalizePlaceToRestaurant(details, API_KEY, resp) ==
    /\ pc = "idle"
    /\ pc' = "returned"
    /\ \E geo \in {reverse_geocode(API_KEY, resp)} :
          /\ call' = [op |-> "normalize_place_to_restaurant", arg |-> details, geo |-> geo]
          /\ ret' = normalize_place_to_restaurant(details, geo)
    /\ UNCHANGED <<tables, model_calls, prev, session_state>>

\* the caller is done with the result, which is discarded
Discard ==
    /\ pc = "returned"
    /\ pc' = "idle"
    /\ call' = NoCall
    /\ ret' = NoResult
    /\ model_calls' = <<>>
    /\ UNCHANGED <<tables, prev, session_state>>

Next ==
    \/ \E boro \in BoroughInputs : CallNormalizeBorough(boro)
    \/ \E raw \in RawRecords : CallExtractBaseFields(raw)
    \/ \E raw \in RawRecords : CallBuildFeatureDf(raw)
    \/ Discard

Spec == Init /\ [][Next]_vars

\* the caller keeps the record and the result of an assembly for later
Remember ==
    /\ pc = "returned"
    /\ call.op = "_build_feature_df"
    /\ pc' = "idle"
    /\ prev' = [call |-> call, ret |-> ret]
    /\ call' = NoCall
    /\ ret' = NoResult
    /\ model_calls' = <<>>
    /\ UNCHANGED <<tables, session_state>>

\* the two feature builders of the repository, called on the same records
NextBuilders ==
    \/ \E raw \in RawRecords : CallBuildFeatureDf(raw)
    \/ \E raw \in RawRecords : CallBuildFeatureVectorFromRaw(raw)
    \/ Discard

SpecBuilders == Init /\ [][NextBuilders]_vars

\* prediction requests in any sequence, with assemblies in between
NextPredict ==
    \/ \E raw \in PredictRecords, model \in Models : CallPredictFromRawRestaurant(raw, model)
    \/ \E raw \in PredictRecords, model \in Models : CallPredictRestaurantGrade(raw, model)
    \/ \E raw \in PredictRecords : CallBuildFeatureDf(raw)
    \/ Remember
    \/ Discard

SpecPredict == Init /\ [][NextPredict]_vars

\* the process from its start: the import, then prediction requests
NextImport ==
    \/ \E file \in DataFiles : Import(file)
    \/ \E raw \in PredictRecords : \E model \in Models : CallPredictFromRawRestaurant(raw, model)
    \/ \E raw \in PredictRecords : \E model \in Models : CallPredictRestaurantGrade(raw, model)
    \/ Discard

SpecImport == InitImport /\ [][NextImport]_vars

\* the demographic resolver, called with every ZIP and borough value
NextResolver ==
    \/ \E zipcode \in ZipVals : \E boro \in BoroVals : CallGetDemoForLocation(zipcode, boro)
    \/ Discard

SpecResolver == Init /\ [][NextResolver]_vars

\* the functions of places.py, called with every answer of the services
NextPlaces ==
    \/ \E types_list \in TypesLists : CallMapGoogleTypesToCuisine(types_list)
    \/ \E API_KEY \in ApiKeys : \E resp \in DetailsResponses : CallGooglePlaceDetails(API_KEY, resp)
    \/ \E API_KEY \in ApiKeys : \E resp \in GeocodeResponses : CallReverseGeocode(API_KEY, resp)
    \/ \E details \in PlaceDetails : \E API_KEY \in ApiKeys : \E resp \in GeocodeResponses :
          CallNormalizePlaceToRestaurant(details, API_KEY, resp)
    \/ Discard

SpecPlaces == Init /\ [][NextPlaces]_vars

\* a user interaction starts a page run: the script runs down to the end of
\* the left column
LeftColumn(df_filtered, map_data, places) ==
    /\ pc = "idle"
    /\ \E out \in {left_col(session_state, df_filtered, map_data, places)} :
          /\ session_state' = out.part.session_state
          /\ call' = [op |-> "page_run", arg |-> map_data, df_filtered |-> df_filtered,
                      center |-> out.center, zoom |-> out.zoom]
          /\ ret' = [ok |-> TRUE, column |-> "left", panel |-> out.part.panel,
                     requests |-> out.part.requests, ended |-> out.part.ended]
          /\ pc' = IF out.part.ended = "" THEN "right_col" ELSE "idle"
    /\ UNCHANGED <<tables, model_calls, prev>>

\* the run goes on with the right column
RightColumn(API_KEY, details_resp, geo_resp) ==
    /\ pc = "right_col"
    /\ \E out \in {right_col(session_state, call.df_filtered, API_KEY, details_resp, geo_resp)} :
          /\ session_state' = out.session_state
          /\ ret' = [ok |-> out.ended \in {"", "st.stop"}, column |-> "right", panel |-> out.panel,
                     requests |-> ret.requests \o out.requests, ended |-> out.ended]
    /\ pc' = "idle"
    /\ UNCHANGED <<tables, call, model_calls, prev>>

\* the page runs of one browser session
NextApp ==
    \/ \E df_filtered \in DatasetViews : \E map_data \in MapData : \E places \in NearbyResults :
          LeftColumn(df_filtered, map_data, places)
    \/ \E API_KEY \in ApiKeys : \E details_resp \in AppDetailsResponses : \E geo_resp \in AppGeocodeResponses :
          RightColumn(API_KEY, details_resp, geo_resp)

\* the page runs do not read the tables of predictor.py: one dataset file
\* stands for all of them; the browser session starts empty
InitApp ==
    /\ Init
    /\ Len(df_demo) = 1
    /\ df_demo[1].boro = <<"M","a","n","h","a","t","t","a","n">>
    /\ df_demo[1].demo.population = 100

SpecApp == InitApp /\ [][NextApp]_vars

(***************************************************************************)
(* Claims about normalize_borough (utils.py)                               *)
(***************************************************************************)
CanonicalBoroughs ==
    { <<"M","a","n","h","a","t","t","a","n">>, <<"B","r","o","n","x">>, <<"B","r","o","o","k","l","y","n">>,
      <<"Q","u","e","e","n","s">>, <<"S","t","a","t","e","n"," ","I","s","l","a","n","d">> }

NormalizeBoroughReturned == pc = "returned" /\ call.op = "normalize_borough"

\* the trimmed, lower-cased text of a str argument
Cleaned(x) == StrLower(StrStrip(x.s))

C9_Examples ==
    { << <<"B","R","O","O","K","L","Y","N"," ">>, <<"B","r","o","o","k","l","y","n">> >>,
      << <<"k","i","n","g","s"," ","c","o","u","n","t","y">>, <<"B","r","o","o","k","l","y","n">> >>,
      << <<"b","r","o","o","k","l","y","n">>, <<"B","r","o","o","k","l","y","n">> >>,
      << <<"n","e","w"," ","y","o","r","k">>, <<"M","a","n","h","a","t","t","a","n">> >>,
      << <<"n","y">>, <<"M","a","n","h","a","t","t","a","n">> >>,
      << <<"r","i","c","h","m","o","n","d">>, <<"S","t","a","t","e","n"," ","I","s","l","a","n","d">> >>,
      << <<"r","i","c","h","m","o","n","d"," ","c","o","u","n","t","y">>, <<"S","t","a","t","e","n"," ","I","s","l","a","n","d">> >> }

\* C9: borough canonicalization ignores letter case and surrounding
\* whitespace and maps every synonym of the table to its canonical borough:
\* every spelling (upper, title, padded) of a synonym yields the synonym's
\* borough, and the inputs the claim names yield the boroughs it names.
C9_CaseAndWhitespaceInsensitive ==
    NormalizeBoroughReturned
        => /\ \A p \in mapping : call.arg \in { PyStr(s) : s \in Spellings(p[1]) } => ret = Returned(PyStr(p[2]))
           /\ \A e \in C9_Examples : call.arg = PyStr(e[1]) => ret = Returned(PyStr(e[2]))

\* "BROOKLYN " has been normalized to "Brooklyn"
C9_Witness ==
    /\ NormalizeBoroughReturned
    /\ call.arg = PyStr(<<"B","R","O","O","K","L","Y","N"," ">>)
    /\ ret = Returned(PyStr(<<"B","r","o","o","k","l","y","n">>))

\* C10 as stated: normalize_borough never raises, and every absent or
\* non-string input (None, empty string, numbers, NaN) yields "Unknown".
C10_NonStringYieldsUnknown ==
    (NormalizeBoroughReturned /\ (call.arg.t # "str" \/ call.arg.s = <<>>))
        => ret = Returned(PyStr(Unknown))

(***************************************************************************)
(* Claims about field extraction and feature assembly (predictor.py)       *)
(***************************************************************************)
ExtractReturned == pc = "returned" /\ call.op = "_extract_base_fields"

BuildReturned == pc = "returned" /\ call.op = "_build_feature_df"

\* the row of the one-row frame a completed _build_feature_df call returned
Features == ret.v.df.row

FloatFields ==
    {"score", "nyc_poverty_rate", "median_income", "perc_white", "perc_black", "perc_asian",
     "perc_other", "perc_hispanic", "indexscore", "population"}

FlagFields == {"pop_missing", "demo_missing", "critical_flag"}

StringFields == {"boro", "zipcode", "cuisine_description", "violation_code"}

RECURSIVE FirstNonEmpty(_, _)
\* the first value among the given keys of a record that is present and not
\* null or empty; None when there is none
FirstNonEmpty(raw, keys) ==
    IF keys = <<>> THEN PyNone
    ELSE IF Head(keys) \in DOMAIN raw /\ Truthy(raw[Head(keys)]) THEN raw[Head(keys)]
    ELSE FirstNonEmpty(raw, Tail(keys))

\* the record's ZIP as a trimmed string; the empty string when it has none
RecordZip(raw) ==
    LET v == FirstNonEmpty(raw, <<"zipcode", "zip", "postal_code", "postalCode">>)
    IN IF v = PyNone THEN <<>> ELSE StrStrip(Str(v))

\* the record's borough value; None when it has none
RecordBoro(raw) == FirstNonEmpty(raw, <<"boro", "borough", "Boro">>)

\* the nine demographic values of the returned features are those of a table row
DemoEquals(row) == \A c \in DemoColumns : Features[c] = PyFloat(row[c])

MissingFlagsAre(n) == Features.pop_missing = PyInt(n) /\ Features.demo_missing = PyInt(n)

\* C1 as stated: for every raw record the feature assembler returns a
\* feature vector with all 17 schema fields present, none null or NaN, each
\* of its schema type (float, integer flag, string).
C1_TotalAndTyped ==
    BuildReturned
        => /\ ret.ok
           /\ DOMAIN Features = FloatFields \cup FlagFields \cup StringFields
           /\ \A c \in FloatFields : Features[c].t = "float" /\ ~Features[c].nan
           /\ \A c \in FlagFields : Features[c].t = "int"
           /\ \A c \in StringFields : Features[c].t = "str"

\* C2 as stated: field extraction never raises for any input record; a score
\* that is present but non-numeric ends in the default 10.0, not in an
\* exception.
C2_ExtractionNeverRaises ==
    ExtractReturned => (ret.ok /\ ret.v.score.t = "float")

\* C3: in every completed assembly of a record whose ZIP (a string, or a
\* number such as 11234) is a key of the ZIP lookup table, the nine
\* demographic values are that ZIP row's values and pop_missing =
\* demo_missing = 0, whatever the record's borough is.
C3_ZipTierWins ==
    (BuildReturned /\ ret.ok /\ RecordZip(call.arg) \in DOMAIN ZIP_LOOKUP)
        => (DemoEquals(ZIP_LOOKUP[RecordZip(call.arg)].demo) /\ MissingFlagsAre(0))

\* the integer ZIP 11234 of a record in Queens hit the ZIP table although
\* the borough table has a Queens row
C3_Witness ==
    /\ BuildReturned /\ ret.ok
    /\ call.arg = [zipcode |-> PyInt(11234), borough |-> PyStr(<<"Q","u","e","e","n","s">>)]
    /\ <<"1","1","2","3","4">> \in DOMAIN ZIP_LOOKUP
    /\ <<"Q","u","e","e","n","s">> \in DOMAIN BORO_LOOKUP
    /\ ZIP_LOOKUP[<<"1","1","2","3","4">>].demo # BORO_LOOKUP[<<"Q","u","e","e","n","s">>].demo
    /\ Features.demo_missing = PyInt(0)

\* C4: in every completed assembly of a record whose ZIP is not a key of the
\* ZIP lookup table and whose normalized borough is a key of the borough
\* aggregate table, the nine demographic values are that borough's aggregate
\* row and pop_missing = demo_missing = 1.
C4_BoroughTier ==
    (BuildReturned /\ ret.ok /\ RecordZip(call.arg) \notin DOMAIN ZIP_LOOKUP
       /\ _normalize_boro(RecordBoro(call.arg)).v \in DOMAIN BORO_LOOKUP)
        => (DemoEquals(BORO_LOOKUP[_normalize_boro(RecordBoro(call.arg)).v].demo) /\ MissingFlagsAre(1))

\* ZIP "99999" in Queens was resolved from the Queens aggregate row
C4_Witness ==
    /\ BuildReturned /\ ret.ok
    /\ call.arg = [zipcode |-> PyStr(<<"9","9","9","9","9">>), borough |-> PyStr(<<"Q","u","e","e","n","s">>)]
    /\ <<"Q","u","e","e","n","s">> \in DOMAIN BORO_LOOKUP
    /\ BORO_LOOKUP[<<"Q","u","e","e","n","s">>].demo # GLOBAL_FALLBACK
    /\ Features.demo_missing = PyInt(1)

\* C5: in every completed assembly of a record whose ZIP is not a key of the
\* ZIP lookup table and whose normalized borough is not a key of the borough
\* aggregate table, the nine demographic values are the global aggregate and
\* pop_missing = demo_missing = 1; the empty record {} is such a record, its
\* assembly completes and its boro is "Unknown".
C5_GlobalTier ==
    /\ (BuildReturned /\ ret.ok /\ RecordZip(call.arg) \notin DOMAIN ZIP_LOOKUP
          /\ _normalize_boro(RecordBoro(call.arg)).v \notin DOMAIN BORO_LOOKUP)
         => (DemoEquals(GLOBAL_FALLBACK) /\ MissingFlagsAre(1))
    /\ (BuildReturned /\ call.arg = EmptyRecord)
         => (ret.ok /\ Features.boro = PyStr(Unknown) /\ DemoEquals(GLOBAL_FALLBACK) /\ MissingFlagsAre(1))

\* the empty record was assembled from the global aggregate
C5_Witness ==
    /\ BuildReturned /\ ret.ok
    /\ call.arg = EmptyRecord
    /\ Features.boro = PyStr(Unknown)
    /\ Features.demo_missing = PyInt(1)

\* C6 as stated: the output zipcode is never empty: it is the record's ZIP
\* as a trimmed string, and the sentinel "00000" when the record has no ZIP
\* or an empty one.
C6_ZipcodeNeverEmpty ==
    (BuildReturned /\ ret.ok)
        => /\ Features.zipcode.s # <<>>
           /\ Features.zipcode.s = IF RecordZip(call.arg) = <<>> THEN <<"0","0","0","0","0">> ELSE RecordZip(call.arg)

\* C7 as stated: the output boro is always one of the five canonical
\* boroughs or "Unknown"; the synonyms "kings county" and "richmond" come
\* out as "Brooklyn" and "Staten Island".
C7_BoroCanonical ==
    (BuildReturned /\ ret.ok)
        => /\ Features.boro.s \in CanonicalBoroughs \cup {Unknown}
           /\ RecordBoro(call.arg) = PyStr(<<"k","i","n","g","s"," ","c","o","u","n","t","y">>)
                => Features.boro.s = <<"B","r","o","o","k","l","y","n">>
           /\ RecordBoro(call.arg) = PyStr(<<"r","i","c","h","m","o","n","d">>)
                => Features.boro.s = <<"S","t","a","t","e","n"," ","I","s","l","a","n","d">>

(***************************************************************************)
(* Field defaults and flags of the feature builders                        *)
(***************************************************************************)
UtilsReturned == pc = "returned" /\ call.op = "build_feature_vector_from_raw"

\* a completed call of either feature builder
BuilderReturned == (BuildReturned \/ UtilsReturned) /\ ret.ok

\* the output row of the completed builder call
BuilderRow == IF UtilsReturned THEN ret.v.row ELSE ret.v.df.row

RECURSIVE FirstNonNull(_, _)
\* the first value among the given keys of a record that is present and not
\* null (None or NaN); None when there is none
FirstNonNull(raw, keys) ==
    IF keys = <<>> THEN PyNone
    ELSE IF Head(keys) \in DOMAIN raw /\ ~IsNaScalar(raw[Head(keys)]) THEN raw[Head(keys)]
    ELSE FirstNonNull(raw, Tail(keys))

IsNumber(x) == x.t = "int" \/ (x.t = "float" /\ ~x.nan)

\* C11: after either feature builder (_build_feature_df or
\* build_feature_vector_from_raw) completes, the output score is the record's
\* score as a float when the record has a non-null number under "score", and
\* 10.0 when the score is absent, None or NaN.
C11_ScoreOrDefault ==
    BuilderReturned =>
        LET score == Get(call.arg, "score", PyNone)
        IN /\ IsNaScalar(score) => BuilderRow.score = PyFloat(20)
           /\ IsNumber(score) => BuilderRow.score = ToFloat(score).v

\* the critical flag the record's value stands for
CriticalOf(v) ==
    IF v.t = "str" /\ Cleaned(v) = <<"c","r","i","t","i","c","a","l">> THEN PyInt(1)
    ELSE IF v.t # "NoneType" /\ ToInt(v).ok THEN ToInt(v).v
    ELSE PyInt(0)

\* C12: after _build_feature_df completes, critical_flag is computed from the
\* first non-null value among the keys critical_flag, critical_flag_bin and
\* critical_flag_int: "critical" in any case gives 1, any other value int()
\* accepts (such as "1") gives that int, anything else or absence gives 0; so
\* a row with critical_flag_bin = 1 gives 1.
C12_CriticalFlagFromKeys ==
    (BuildReturned /\ ret.ok) =>
        Features.critical_flag =
            CriticalOf(FirstNonNull(call.arg, <<"critical_flag", "critical_flag_bin", "critical_flag_int">>))

\* C13: after _build_feature_df completes, pop_missing, demo_missing and
\* critical_flag are each the integer 0 or the integer 1, whatever the record.
C13_FlagsAreBinary ==
    (BuildReturned /\ ret.ok) => \A f \in FlagFields : Features[f] \in {PyInt(0), PyInt(1)}

\* the value as a trimmed string, or the sentinel when there is no value or
\* the trimmed string is empty
TrimmedOr(v, sentinel) ==
    IF v.t = "NoneType" \/ StrStrip(Str(v)) = <<>> THEN sentinel ELSE StrStrip(Str(v))

\* C14: after _build_feature_df completes, violation_code is the first
\* non-null value under the violation-code key as a trimmed string, and "00X"
\* when that value is absent or empty.
C14_ViolationCodeOrSentinel ==
    (BuildReturned /\ ret.ok) =>
        Features.violation_code =
            PyStr(TrimmedOr(FirstNonNull(call.arg, <<"violation_code">>), <<"0","0","X">>))

\* C15: after _build_feature_df completes, cuisine_description is the first
\* non-null value among the cuisine keys, lower-cased and trimmed, and "other"
\* when that value is absent or empty.
C15_CuisineLowerOrOther ==
    (BuildReturned /\ ret.ok) =>
        Features.cuisine_description =
            PyStr(StrLower(TrimmedOr(FirstNonNull(call.arg, <<"cuisine_description", "cuisine", "type">>),
                                     <<"o","t","h","e","r">>)))

\* the 17 columns of the schema, in the order the classifier expects
SchemaColumns ==
    <<"score", "nyc_poverty_rate", "median_income", "perc_white", "perc_black", "perc_asian",
      "perc_other", "perc_hispanic", "indexscore", "population", "pop_missing", "demo_missing",
      "boro", "zipcode", "cuisine_description", "violation_code", "critical_flag">>

\* C16: the frame a completed _build_feature_df call returns has exactly the
\* 17 schema columns, each once, in the schema's order, and one cell per
\* column, whatever keys the record had and whichever tier served it.
C16_ColumnsFixed ==
    (BuildReturned /\ ret.ok) =>
        /\ ret.v.df.columns = SchemaColumns
        /\ Len(ret.v.df.columns) = 17
        /\ \A i, j \in 1..Len(ret.v.df.columns) : ret.v.df.columns[i] = ret.v.df.columns[j] => i = j
        /\ DOMAIN ret.v.df.row = {SchemaColumns[i] : i \in 1..Len(SchemaColumns)}

\* a frame served by a fallback tier for a record spelling its cuisine under
\* another key, and a frame served by the ZIP tier for a record with more keys
C16_Witness ==
    /\ BuildReturned /\ ret.ok
    /\ ret.v.df.columns = SchemaColumns
    /\ \/ DOMAIN call.arg = {"cuisine"} /\ Features.pop_missing = PyInt(1)
       \/ DOMAIN call.arg = {"borough", "zipcode"} /\ Features.pop_missing = PyInt(0)

C18_TablesNeverChange ==
    [][/\ ZIP_LOOKUP' = ZIP_LOOKUP
       /\ BORO_LOOKUP' = BORO_LOOKUP
       /\ GLOBAL_FALLBACK' = GLOBAL_FALLBACK]_vars

PredictReturned == pc = "returned" /\ call.op \in {"predict_from_raw_restaurant", "predict_restaurant_grade"}

PredictFromRawReturned == pc = "returned" /\ call.op = "predict_from_raw_restaurant"

\* a prediction that a fallback tier served has returned, and the tables are
\* the ones module import built
C18_Witness ==
    /\ PredictReturned /\ ret.ok
    /\ RecordZip(call.arg) # <<>> /\ ret.v.features_used.pop_missing = PyInt(1)
    /\ ZIP_LOOKUP = BuildZipLookup(df_demo)

\* the grade and the probabilities of a returned mapping are the classifier's
GradeAndProbabilities ==
    /\ DOMAIN ret.v = {"grade", "probabilities", "features_used"}
    /\ model_calls[1].method = "predict"
    /\ ret.v.grade = model_calls[1].outcome.v
    /\ call.model.has_predict_proba =>
          /\ Len(model_calls) = 2 /\ model_calls[2].method = "predict_proba"
          /\ DOMAIN ret.v.probabilities = {classes_[i] : i \in 1..Len(classes_)}
          /\ \A i \in 1..Len(classes_) :
                ret.v.probabilities[classes_[i]] = PyFloat(model_calls[2].outcome.v[i])
    /\ ret.v.probabilities = <<>> <=> ~call.model.has_predict_proba

ClassifierRaised == \E i \in 1..Len(model_calls) : ~model_calls[i].outcome.ok

\* C20: when a classifier call of a predict_from_raw_restaurant request
\* raised, the request ends with that exception and no result mapping, the
\* raising call is the last classifier call of the request, and no method of
\* the classifier was called twice.
C20_ClassifierErrorPropagates ==
    (PredictFromRawReturned /\ ClassifierRaised) =>
        /\ ~ret.ok
        /\ ret = model_calls[Len(model_calls)].outcome
        /\ \A i \in 1..(Len(model_calls) - 1) : model_calls[i].outcome.ok
        /\ \A i, j \in 1..Len(model_calls) : model_calls[i].method = model_calls[j].method => i = j

\* predict answered and predict_proba raised
C20_Witness ==
    /\ PredictFromRawReturned /\ ~ret.ok
    /\ Len(model_calls) = 2
    /\ model_calls[1].outcome.ok /\ ~model_calls[2].outcome.ok

(***************************************************************************)
(* Module import                                                           *)
(***************************************************************************)
ImportErrors == {Raised("FileNotFoundError"), Raised("RuntimeError")}

TablesBuilt ==
    /\ df_demo # Undefined /\ \A i \in 1..Len(df_demo) : "zipcode" \in DOMAIN df_demo[i]
    /\ ZIP_LOOKUP # Undefined /\ BORO_LOOKUP # Undefined /\ GLOBAL_FALLBACK # Undefined

\* the import ends in one of two ways, and requests run in one of them only
ImportAbortsOrBuilds ==
    /\ pc = "import_failed" =>
          /\ ret \in ImportErrors
          /\ df_demo = Undefined /\ ZIP_LOOKUP = Undefined
          /\ BORO_LOOKUP = Undefined /\ GLOBAL_FALLBACK = Undefined
    /\ pc \in {"idle", "returned"} => TablesBuilt
    /\ pc = "returned" => ret \notin ImportErrors

\* C21: an import that cannot read the dataset, or reads one without a
\* zipcode column, ends with the error and leaves no table defined, and
\* stays failed for ever; a request is processed only with the tables and
\* the global aggregate built from a dataset with a zipcode column, and no
\* request ends with the load error.
C21_ImportAbortsBeforeRequests ==
    /\ []ImportAbortsOrBuilds
    /\ [][pc = "import_failed" => pc' = "import_failed"]_vars

\* the import failed on a dataset without a zipcode column
C21_Witness == pc = "import_failed" /\ ret = Raised("RuntimeError") /\ GLOBAL_FALLBACK = Undefined


(***************************************************************************)
(* places.py: the Google place records                                     *)
(***************************************************************************)
\* a call of normalize_place_to_restaurant has completed
NormalizeCompleted == pc = "returned" /\ call.op = "normalize_place_to_restaurant"

\* the geocoding service gave neither a ZIP nor a borough
GeocodeYieldedNothing == ~Truthy(call.geo.zipcode) /\ ~Truthy(call.geo.borough)

\* C22: when the place details came back empty or reverse geocoding yielded
\* nothing, normalize_place_to_restaurant does not raise and returns a record
\* with borough "Unknown" and zipcode "00000".
C22_EmptyAnswersRecoverable ==
    (NormalizeCompleted /\ (call.arg = EmptyDict \/ GeocodeYieldedNothing))
        => /\ ret.ok
           /\ ret.v.borough = PyStr(Unknown)
           /\ ret.v.zipcode = PyStr(<<"0","0","0","0","0">>)

\* a call of map_google_types_to_cuisine has completed
CuisineMapped == pc = "returned" /\ call.op = "map_google_types_to_cuisine"

\* the least index of a non-empty set of indices
FirstOf(S) == CHOOSE i \in S : \A j \in S : i <= j

\* the positions of the types ending with "_restaurant"
RestaurantTypes(types) == { i \in 1..Len(types) : EndsWith(types[i].s, <<"_","r","e","s","t","a","u","r","a","n","t">>) }

\* the positions of the types that contain some keyword
KeywordTypes(types) == { i \in 1..Len(types) : \E k \in 1..Len(keyword_map) : Contains(keyword_map[k][1], types[i].s) }

\* the value of the first keyword, in the order of the keyword map, that type t contains
KeywordValue(t) == keyword_map[FirstOf({ k \in 1..Len(keyword_map) : Contains(keyword_map[k][1], t) })][2]

\* the priorities of map_google_types_to_cuisine on the completed call
C26_Priorities ==
    LET types == call.arg.elems
    IN IF call.arg = PyNone \/ types = <<>> THEN ret.v.s = <<"U","n","k","n","o","w","n">>
       ELSE IF RestaurantTypes(types) # {}
            THEN ret.v.s = CuisineOfRestaurantType(types[FirstOf(RestaurantTypes(types))].s)
       ELSE IF KeywordTypes(types) # {}
            THEN ret.v.s = KeywordValue(types[FirstOf(KeywordTypes(types))].s)
       ELSE ret.v.s = <<"O","t","h","e","r">>

C27_PlaceRecordDefaults ==
    (NormalizeCompleted /\ ret.ok) =>
        /\ ret.v.zipcode.t = "str" /\ ret.v.zipcode.s # <<>>
        /\ ~Truthy(call.geo.zipcode) => ret.v.zipcode = PyStr(<<"0","0","0","0","0">>)
        /\ ret.v.boro = ret.v.borough
        /\ ~Truthy(call.geo.borough) => ret.v.borough = PyStr(Unknown)
        /\ ret.v.cuisine_description.t = "str" /\ ret.v.cuisine_description.s # <<>>
        /\ ret.v.score = PyInt(10)
        /\ ret.v.critical_flag = PyInt(0)
        /\ ret.v.violation_code = PyStr(<<"0","0","X">>)
        /\ \E built \in {_build_feature_df(ret.v)} :
              /\ built.ok
              /\ built.v.df.row.score = PyFloat(20)
              /\ built.v.df.row.critical_flag = PyInt(0)
              /\ built.v.df.row.violation_code = PyStr(<<"0","0","X">>)

\* a place without type tags whose position could not be geocoded
C27_Witness ==
    /\ NormalizeCompleted
    /\ ret.ok
    /\ GeocodeYieldedNothing
    /\ "types" \notin DOMAIN call.arg
    /\ ret.v.zipcode = PyStr(<<"0","0","0","0","0">>)
    /\ ret.v.borough = PyStr(Unknown)


(***************************************************************************)
(* The demographic resolver and the two builders                           *)
(***************************************************************************)
\* a call of _get_demo_for_location has completed
Resolved == pc = "returned" /\ call.op = "_get_demo_for_location"

\* the trimmed ZIP of the completed resolver call is non-empty and a key of
\* the ZIP lookup table
TrimmedZipIsKey ==
    /\ call.zipcode # PyNone
    /\ StrStrip(Str(call.zipcode)) # <<>>
    /\ StrStrip(Str(call.zipcode)) \in DOMAIN ZIP_LOOKUP

\* C28: every output of the demographic resolver, for every (zipcode,
\* borough) including None and empty values, has the nine demographic keys
\* and both flags, with pop_missing = demo_missing; both are 0 exactly when
\* the trimmed ZIP is non-empty and a key of the ZIP lookup table, and 1
\* otherwise.
C28_ResolverFlags ==
    (Resolved /\ ret.ok) =>
        /\ DOMAIN ret.v = DemoColumns \cup {"pop_missing", "demo_missing"}
        /\ ret.v.pop_missing = ret.v.demo_missing
        /\ ret.v.pop_missing = IF TrimmedZipIsKey THEN PyInt(0) ELSE PyInt(1)

\* ZIP " 10001 " with no borough was found in the ZIP table after trimming
C28_Witness ==
    /\ Resolved /\ ret.ok
    /\ call.zipcode = PyStr(<<" ","1","0","0","0","1"," ">>)
    /\ call.boro = PyNone
    /\ TrimmedZipIsKey
    /\ ret.v.pop_missing = PyInt(0)
    /\ ret.v.demo_missing = PyInt(0)

\* the completed assembly took its demographics from the borough tier
BoroTierUsed ==
    /\ BuildReturned /\ ret.ok
    /\ RecordZip(call.arg) \notin DOMAIN ZIP_LOOKUP
    /\ _normalize_boro(RecordBoro(call.arg)).v \in DOMAIN BORO_LOOKUP

\* C29: whenever the demographics of a feature vector come from the borough
\* tier, the vector's boro field is the key of the borough aggregate row
\* that was used; the borough written to the output is the normalization of
\* the input value that the lookup used.
C29_BoroIsTierKey ==
    /\ BoroTierUsed =>
          /\ Features.boro.s \in DOMAIN BORO_LOOKUP
          /\ DemoEquals(BORO_LOOKUP[Features.boro.s].demo)
    /\ (BuildReturned /\ ret.ok) => Features.boro.s = _normalize_boro(RecordBoro(call.arg)).v

\* "BROOKLYN " without a ZIP was resolved from the row keyed "Brooklyn", and
\* "Brooklyn" is the boro of the vector
C29_Witness ==
    /\ BoroTierUsed
    /\ call.arg = [borough |-> PyStr(<<"B","R","O","O","K","L","Y","N"," ">>)]
    /\ Features.boro = PyStr(<<"B","r","o","o","k","l","y","n">>)
    /\ BORO_LOOKUP[<<"B","r","o","o","k","l","y","n">>].demo # GLOBAL_FALLBACK
    /\ Features.demo_missing = PyInt(1)

\* the six extracted fields the two builders both write
ExtractedFields == {"score", "boro", "zipcode", "cuisine_description", "violation_code", "critical_flag"}

\* C30 as stated: for every raw record, build_feature_vector_from_raw and
\* _build_feature_df produce the same score, boro, zipcode,
\* cuisine_description, violation_code and critical_flag.
C30_BuildersAgree ==
    BuildReturned =>
        \E other \in {build_feature_vector_from_raw(call.arg)} :
            /\ ret.ok
            /\ other.ok
            /\ \A f \in ExtractedFields : Features[f] = other.v.row[f]


(***************************************************************************)
(* app.py: clicks, panels and zoom of a page run                           *)
(***************************************************************************)
\* the value of a session key, None when it was never set
Stored(state, key) == Get(state, key, PyNone)

\* this step is the left column of a run in which the map reports a click
\* (every step that leaves "idle" is a left column)
LeftColumnWithClick ==
    /\ pc = "idle"
    /\ call'.op = "page_run"
    /\ call'.df_filtered # <<>>
    /\ call'.arg # PyNone
    /\ call'.arg.last_clicked # PyNone

\* the left column issued a nearby search
NearbySearched == \E i \in 1..Len(ret'.requests) : ret'.requests[i] = "google_nearby_restaurants"

RunEnded == pc = "idle" /\ call.op = "page_run"

FourPanels == {"dataset", "google_nearby", "map_click", "default"}

\* the stored click is within the selection threshold of a dataset restaurant
ClickNearDataset ==
    \E i \in 1..Len(call.df_filtered) :
        /\ ~call.df_filtered[i].nan
        /\ _dist2(session_state.map_click.lat, session_state.map_click.lng,
                  call.df_filtered[i].latitude, call.df_filtered[i].longitude) < SelectionThreshold

\* the stored click is within the selection threshold of a Google nearby place
ClickNearGoogle ==
    \E i \in 1..Len(session_state.google_nearby) :
        _dist2(session_state.map_click.lat, session_state.map_click.lng,
               session_state.google_nearby[i].geometry.location.lat,
               session_state.google_nearby[i].geometry.location.lng) < SelectionThreshold

\* the panel is the first of dataset restaurant, Google nearby restaurant,
\* plain map click and default that applies; the dataset panel predicts the
\* dataset restaurant and calls nothing of Google
PanelByPriority ==
    /\ ret.panel = IF Stored(session_state, "map_click") = PyNone THEN "default"
                   ELSE IF ClickNearDataset THEN "dataset"
                   ELSE IF ClickNearGoogle THEN "google_nearby"
                   ELSE "map_click"
    /\ (Stored(session_state, "map_click") # PyNone /\ ClickNearDataset /\ ClickNearGoogle)
          => /\ ret.panel = "dataset"
             /\ ret.requests = <<"predict_from_raw_restaurant(raw_restaurant)">>

\* C24 as stated: in every page run exactly one of the four panels is
\* produced, chosen in the order dataset restaurant, Google nearby
\* restaurant, plain map click, default; a click near both a dataset
\* restaurant and a Google place selects and predicts the dataset restaurant
\* without a place-details request or a Google prediction.
C24_OnePanelEveryRun ==
    RunEnded => (ret.panel \in FourPanels /\ PanelByPriority)

\* C24, amended: every page run that reaches the right column produces
\* exactly one of the four panels, chosen in that order, with the dataset
\* restaurant winning over a Google place as stated; a run that the left
\* column stops (zoom gesture) or restarts (new click) produces no panel.
C24_OnePanelPerRightColumn ==
    RunEnded =>
        IF ret.column = "left"
        THEN ret.panel = "none" /\ ret.ended \in {"st.stop", "st.rerun"}
        ELSE ret.panel \in FourPanels /\ PanelByPriority

\* the stored click is near a dataset restaurant and near a Google place:
\* the dataset panel was produced and only the dataset prediction was made
C24_Witness ==
    /\ RunEnded
    /\ Stored(session_state, "map_click") # PyNone
    /\ ClickNearDataset
    /\ ClickNearGoogle
    /\ ret.panel = "dataset"
    /\ ret.requests = <<"predict_from_raw_restaurant(raw_restaurant)">>

\* C25 as stated: in a page run that starts with just_selected_restaurant
\* set, the stored map_zoom is not overwritten by the zoom the map widget
\* reports in that run, and the map of that run is built with the stored
\* center and zoom before the flag is cleared.
C25_ZoomKeptAfterSelection ==
    [][(pc = "idle" /\ Get(session_state, "just_selected_restaurant", FALSE) /\ call'.df_filtered # <<>>)
          => /\ session_state'.map_zoom = session_state.map_zoom
             /\ call'.center = session_state.map_center
             /\ call'.zoom = session_state.map_zoom]_vars

====
